---------------------------- MODULE Spec2Model ----------------------------
(***************************************************************************)
(* Identity de-duplication service: normalisation and canonical identity   *)
(* text, the classifier artifact store, the online duplicate check, the    *)
(* transient-row vector search, training-pair generation and the ranker    *)
(* trainer.                                                                *)
(*                                                                         *)
(* Representation.  A Python str is a sequence of one-character strings;   *)
(* None is the value None below.  A probability or a feature in [0,1] is   *)
(* an integer number of hundredths (0..100); a classifier score is an      *)
(* integer number of ten-thousandths (0..10000), so 0.82 is 8200.          *)
(***************************************************************************)
EXTENDS Integers, Sequences, FiniteSets, TLC

----------------------------------------------------------------------------
(* Python values                                                           *)

None == <<"<None>">>

\* `x or ""`
OrEmpty(s) == IF s = None THEN <<>> ELSE s

\* Python truthiness of an optional str
Truthy(s) == s # None /\ s # <<>>

LowerLetters == <<"a","b","c","d","e","f","g","h","i","j","k","l","m",
                  "n","o","p","q","r","s","t","u","v","w","x","y","z">>

UpperLetters == <<"A","B","C","D","E","F","G","H","I","J","K","L","M",
                  "N","O","P","Q","R","S","T","U","V","W","X","Y","Z">>

Digits == <<"0","1","2","3","4","5","6","7","8","9">>

Range(f) == {f[i] : i \in DOMAIN f}

IndexOf(c, alphabet) == CHOOSE i \in DOMAIN alphabet : alphabet[i] = c

LowerSet == Range(LowerLetters)

UpperSet == Range(UpperLetters)

DigitSet == Range(Digits)

IsLower(c) == c \in LowerSet

IsUpper(c) == c \in UpperSet

IsDigit(c) == c \in DigitSet

\* str.isspace for the characters of the model
IsSpace(c) == c \in {" ", "\t"}

DigitValue == [c \in DigitSet |-> IndexOf(c, Digits) - 1]

DigitVal(c) == DigitValue[c]

ToLower == [c \in UpperSet |-> LowerLetters[IndexOf(c, UpperLetters)]]

ToUpper == [c \in LowerSet |-> UpperLetters[IndexOf(c, LowerLetters)]]

LowerChar(c) == IF IsUpper(c) THEN ToLower[c] ELSE c

UpperChar(c) == IF IsLower(c) THEN ToUpper[c] ELSE c

\* str.lower()
Lower(s) == [i \in DOMAIN s |-> LowerChar(s[i])]

\* str.upper()
Upper(s) == [i \in DOMAIN s |-> UpperChar(s[i])]

RECURSIVE LStrip(_)
LStrip(s) == IF s # <<>> /\ IsSpace(Head(s)) THEN LStrip(Tail(s)) ELSE s

RECURSIVE RStrip(_)
RStrip(s) ==
    IF s # <<>> /\ IsSpace(s[Len(s)]) THEN RStrip(SubSeq(s, 1, Len(s) - 1)) ELSE s

\* str.strip()
Strip(s) == RStrip(LStrip(s))

\* position of the first occurrence of c in s, 0 when absent
RECURSIVE Find(_, _, _)
Find(s, c, i) ==
    IF i > Len(s) THEN 0 ELSE IF s[i] = c THEN i ELSE Find(s, c, i + 1)

StartsWith(s, p) == Len(s) >= Len(p) /\ SubSeq(s, 1, Len(p)) = p

\* re.sub(r"\s+", " ", s): every run of whitespace becomes one space
RECURSIVE CollapseSpaces(_)
CollapseSpaces(s) ==
    IF s = <<>> THEN <<>>
    ELSE IF IsSpace(Head(s))
         THEN <<" ">> \o CollapseSpaces(LStrip(s))
         ELSE <<Head(s)>> \o CollapseSpaces(Tail(s))

\* str.split(): the whitespace-separated tokens of s, as a set
RECURSIVE Tokens(_)
Tokens(s) ==
    LET t == LStrip(s)
        RECURSIVE WordEnd(_)
        WordEnd(i) == IF i > Len(t) \/ IsSpace(t[i]) THEN i - 1 ELSE WordEnd(i + 1)
    IN IF t = <<>> THEN {}
       ELSE LET e == WordEnd(1)
            IN {SubSeq(t, 1, e)} \cup Tokens(SubSeq(t, e + 1, Len(t)))

----------------------------------------------------------------------------
(* app/normalization.py                                                    *)

norm_name(s) ==
    IF ~Truthy(s) THEN <<>>
    ELSE LET low == Lower(s)
             sub == [i \in DOMAIN low |->
                        IF IsLower(low[i]) \/ IsSpace(low[i]) THEN low[i] ELSE " "]
         IN Strip(CollapseSpaces(sub))

GmailDomains ==
    { <<"g","m","a","i","l",".","c","o","m">>,
      <<"g","o","o","g","l","e","m","a","i","l",".","c","o","m">> }

\* (the Gmail rules applied to every domain)
norm_email_any_domain(s) ==
    LET t == Lower(Strip(OrEmpty(s)))
        at == Find(t, "@", 1)
        local == IF at = 0 THEN t ELSE SubSeq(t, 1, at - 1)
        sep == IF at = 0 THEN <<>> ELSE <<"@">>
        domain == IF at = 0 THEN <<>> ELSE SubSeq(t, at + 1, Len(t))
        plus == Find(local, "+", 1)
        cut == IF plus = 0 THEN local ELSE SubSeq(local, 1, plus - 1)
        nodot == SelectSeq(cut, LAMBDA c : c # ".")
    IN IF t = <<>> THEN <<>> ELSE nodot \o sep \o domain

norm_email(s) ==
    LET t == Lower(Strip(OrEmpty(s)))
        at == Find(t, "@", 1)
        local == IF at = 0 THEN t ELSE SubSeq(t, 1, at - 1)
        sep == IF at = 0 THEN <<>> ELSE <<"@">>
        domain == IF at = 0 THEN <<>> ELSE SubSeq(t, at + 1, Len(t))
        plus == Find(local, "+", 1)
        cut == IF plus = 0 THEN local ELSE SubSeq(local, 1, plus - 1)
        nodot == SelectSeq(cut, LAMBDA c : c # ".")
    IN IF t = <<>> THEN <<>>
       ELSE IF domain \in GmailDomains THEN nodot \o sep \o domain
       ELSE local \o sep \o domain

norm_phone_e164(s) ==
    LET d == SelectSeq(Strip(OrEmpty(s)), IsDigit)
        a == IF StartsWith(d, <<"9","1">>) /\ Len(d) = 12 THEN <<"+">> \o d ELSE d
    IN IF ~StartsWith(a, <<"+">>) /\ Len(a) >= 10 THEN <<"+">> \o a ELSE a

norm_govid(s) == Upper(Strip(OrEmpty(s)))

\* _PIN_RE = ^[1-9]\d{5}$ under fullmatch
PinMatches(s) ==
    /\ Len(s) = 6
    /\ \A i \in 1..6 : IsDigit(s[i])
    /\ s[1] # "0"

norm_postal_code(s) ==
    LET t == SelectSeq(Strip(OrEmpty(s)), LAMBDA c : c # " ")
    IN IF t = <<>> THEN <<>> ELSE IF PinMatches(t) THEN t ELSE <<>>

Label(str) ==
    CASE str = "name"  -> <<"n","a","m","e",":">>
      [] str = "dob"   -> <<"d","o","b",":">>
      [] str = "phone" -> <<"p","h","o","n","e",":">>
      [] str = "email" -> <<"e","m","a","i","l",":">>
      [] str = "govid" -> <<"g","o","v","i","d",":">>
      [] str = "addr"  -> <<"a","d","d","r",":">>
      [] str = "city"  -> <<"c","i","t","y",":">>
      [] str = "state" -> <<"s","t","a","t","e",":">>
      [] str = "pc"    -> <<"p","c",":">>
      [] str = "ctry"  -> <<"c","t","r","y",":">>

Sep == <<" ", "|", " ">>

canonical_identity_text(full_name, dob_iso, phone, email, govid, addr_line, city, state, postal_code, country) ==
    Label("name") \o norm_name(full_name) \o Sep \o
    Label("dob") \o Strip(OrEmpty(dob_iso)) \o Sep \o
    Label("phone") \o norm_phone_e164(phone) \o Sep \o
    Label("email") \o norm_email(email) \o Sep \o
    Label("govid") \o norm_govid(govid) \o Sep \o
    Label("addr") \o Lower(OrEmpty(addr_line)) \o Sep \o
    Label("city") \o Lower(OrEmpty(city)) \o Sep \o
    Label("state") \o Lower(OrEmpty(state)) \o Sep \o
    Label("pc") \o norm_postal_code(postal_code) \o Sep \o
    Label("ctry") \o Upper(OrEmpty(country))

----------------------------------------------------------------------------
(* Dates.  A DATE column value is a record [y, m, d]; date.isoformat()     *)
(* writes it as YYYY-MM-DD and date.fromisoformat() reads that back.       *)

Pad(n, width) ==
    LET RECURSIVE Dig(_, _)
        Dig(k, w) == IF w = 0 THEN <<>> ELSE Dig(k \div 10, w - 1) \o <<Digits[(k % 10) + 1]>>
    IN Dig(n, width)

isoformat(date) == Pad(date.y, 4) \o <<"-">> \o Pad(date.m, 2) \o <<"-">> \o Pad(date.d, 2)

RECURSIVE Num(_)
Num(s) == IF s = <<>> THEN 0 ELSE 10 * Num(SubSeq(s, 1, Len(s) - 1)) + DigitVal(s[Len(s)])

fromisoformat(s) ==
    [y |-> Num(SubSeq(s, 1, 4)), m |-> Num(SubSeq(s, 6, 7)), d |-> Num(SubSeq(s, 9, 10))]

\* proleptic Gregorian day number, as date subtraction uses it
toordinal(date) ==
    LET a == (14 - date.m) \div 12
        yy == date.y + 4800 - a
        mm == date.m + 12 * a - 3
    IN date.d + (153 * mm + 2) \div 5 + 365 * yy + yy \div 4 - yy \div 100 + yy \div 400

Abs(n) == IF n < 0 THEN -n ELSE n

Min(a, b) == IF a <= b THEN a ELSE b

----------------------------------------------------------------------------
(* app/features.py                                                         *)

\* rapidfuzz's JaroWinkler.normalized_similarity on two non-empty strings,
\* in hundredths: 100 exactly for equal strings, otherwise the share of
\* positions that agree (a stand-in for the library's metric).
NormalizedSimilarity(a, b) ==
    LET n == IF Len(a) >= Len(b) THEN Len(a) ELSE Len(b)
        same == {i \in 1..Min(Len(a), Len(b)) : a[i] = b[i]}
    IN (100 * Cardinality(same)) \div n

jw(a, b) ==
    LET x == Strip(Lower(OrEmpty(a)))
        y == Strip(Lower(OrEmpty(b)))
    IN IF x = <<>> \/ y = <<>> THEN 0 ELSE NormalizedSimilarity(x, y)

\* (an indicator of equality alone)
exact_match_equal(a, b) == IF a = b THEN 100 ELSE 0

exact_match(a, b) == IF Truthy(a) /\ Truthy(b) /\ a = b THEN 100 ELSE 0

phone_match(a, b) == exact_match(a, b)

email_match(a, b) == exact_match(a, b)

govid_match(a, b) == exact_match(a, b)

addr_overlap(a, b) ==
    LET set_a == Tokens(Lower(OrEmpty(a)))
        set_b == Tokens(Lower(OrEmpty(b)))
    IN IF set_a = {} \/ set_b = {} THEN 0
       ELSE (100 * Cardinality(set_a \cap set_b)) \div Cardinality(set_a \cup set_b)

\* (a tiered match that tests equality first)
pincode_match_equal_first(a, b) ==
    LET x == Strip(OrEmpty(a))
        y == Strip(OrEmpty(b))
    IN IF x = y THEN 100
       ELSE IF Len(x) = 6 /\ Len(y) = 6 /\ SubSeq(x, 1, 5) = SubSeq(y, 1, 5) THEN 50
       ELSE 0

pincode_match(a, b) ==
    LET x == Strip(OrEmpty(a))
        y == Strip(OrEmpty(b))
    IN IF x = <<>> \/ y = <<>> THEN 0
       ELSE IF x = y THEN 100
       ELSE IF Len(x) = 6 /\ Len(y) = 6 /\ SubSeq(x, 1, 5) = SubSeq(y, 1, 5) THEN 50
       ELSE 0

\* (the difference left signed)
dob_delta_days_signed(a, b) ==
    IF ~Truthy(a) \/ ~Truthy(b) THEN 9999
    ELSE toordinal(fromisoformat(a)) - toordinal(fromisoformat(b))

\* in days (not hundredths)
dob_delta_days(a, b) ==
    IF ~Truthy(a) \/ ~Truthy(b) THEN 9999
    ELSE Abs(toordinal(fromisoformat(a)) - toordinal(fromisoformat(b)))

\* dict.get(key): None for a key the dict does not hold
Get(dict, key) == IF key \in DOMAIN dict THEN dict[key] ELSE None

\* (a row with the phone and the gov-id indicators in each other's place)
feature_row_swapped(query, candidate, vdist) ==
    << 10000 \div (100 + vdist),
       jw(Get(query, "full_name"), Get(candidate, "full_name")),
       govid_match(Get(query, "gov_id_norm"), Get(candidate, "gov_id_norm")),
       email_match(Get(query, "email_norm"), Get(candidate, "email_norm")),
       phone_match(Get(query, "phone_e164"), Get(candidate, "phone_e164")),
       addr_overlap(Get(query, "addr_line"), Get(candidate, "addr_line")),
       jw(Get(query, "city"), Get(candidate, "city")),
       jw(Get(query, "state"), Get(candidate, "state")),
       pincode_match(Get(query, "postal_code"), Get(candidate, "postal_code")),
       dob_delta_days(Get(query, "dob"), Get(candidate, "dob")) >>

\* vdist is in hundredths; so is 1 / (1 + vdist)
feature_row(query, candidate, vdist) ==
    << 10000 \div (100 + vdist),
       jw(Get(query, "full_name"), Get(candidate, "full_name")),
       phone_match(Get(query, "phone_e164"), Get(candidate, "phone_e164")),
       email_match(Get(query, "email_norm"), Get(candidate, "email_norm")),
       govid_match(Get(query, "gov_id_norm"), Get(candidate, "gov_id_norm")),
       addr_overlap(Get(query, "addr_line"), Get(candidate, "addr_line")),
       jw(Get(query, "city"), Get(candidate, "city")),
       jw(Get(query, "state"), Get(candidate, "state")),
       pincode_match(Get(query, "postal_code"), Get(candidate, "postal_code")),
       dob_delta_days(Get(query, "dob"), Get(candidate, "dob")) >>

----------------------------------------------------------------------------
(* app/model_store.py: the classifiers                                     *)

\* (a score without the gov-id rule)
RuleScoreSumOnly(row) ==
    Min(40 * row[3] + 40 * row[4] + 10 * row[1] + 10 * row[2]
        + 5 * row[6] + 5 * row[7] + 3 * row[8] + 5 * row[9]
        + (IF (row[3] # 0 \/ row[4] # 0 \/ row[2] > 0) /\ row[10] < 365
           THEN (IF row[10] < 30 THEN 1000 ELSE 500) ELSE 0), 9900)

\* (a score whose DOB bonus needs no other signal)
RuleScoreUngatedBonus(row) ==
    IF row[5] >= 100 THEN 9900
    ELSE Min(40 * row[3] + 40 * row[4] + 10 * row[1] + 10 * row[2]
             + 5 * row[6] + 5 * row[7] + 3 * row[8] + 5 * row[9]
             + (IF row[10] < 365 THEN (IF row[10] < 30 THEN 1000 ELSE 500) ELSE 0), 9900)

\* (a score without the cap)
RuleScoreUncapped(row) ==
    IF row[5] >= 100 THEN 9900
    ELSE 40 * row[3] + 40 * row[4] + 10 * row[1] + 10 * row[2]
         + 5 * row[6] + 5 * row[7] + 3 * row[8] + 5 * row[9]
         + (IF (row[3] # 0 \/ row[4] # 0 \/ row[2] > 0) /\ row[10] < 365
            THEN (IF row[10] < 30 THEN 1000 ELSE 500) ELSE 0)

\* RuleBasedClassifier.predict_proba for one row: the positive-class score
RuleScore(row) ==
    LET vsim == row[1]
        name_sim == row[2]
        phone == row[3]
        email == row[4]
        govid == row[5]
        addr == row[6]
        city_sim == row[7]
        state_sim == row[8]
        pin == row[9]
        dob_delta == row[10]
        sum == 40 * phone + 40 * email + 10 * vsim + 10 * name_sim
               + 5 * addr + 5 * city_sim + 3 * state_sim + 5 * pin
        bonus == IF (phone # 0 \/ email # 0 \/ name_sim > 0) /\ dob_delta < 365
                 THEN (IF dob_delta < 30 THEN 1000 ELSE 500)
                 ELSE 0
    IN IF govid >= 100 THEN 9900 ELSE Min(sum + bonus, 9900)

\* The classifiers an artifact can hold.  "rule" is _DEFAULT; "linear" is a
\* fitted LogisticRegression (weights per feature and an intercept, the
\* logistic link taken piecewise linear); "single" is a model that knows one
\* class only and returns a single probability column.
DefaultModel == [kind |-> "rule"]

LinearScore(m, row) ==
    LET RECURSIVE Dot(_)
        Dot(i) == IF i = 0 THEN 0 ELSE Dot(i - 1) + m.w[i] * row[i]
        z == 5000 + m.b + Dot(10)
    IN IF z < 0 THEN 0 ELSE Min(z, 10000)

\* model.predict_proba(X): one tuple of class probabilities per row
ModelProba(m, X) ==
    [i \in DOMAIN X |->
        CASE m.kind = "rule"   -> <<10000 - RuleScore(X[i]), RuleScore(X[i])>>
          [] m.kind = "linear" -> <<10000 - LinearScore(m, X[i]), LinearScore(m, X[i])>>
          [] m.kind = "single" -> <<10000>>]

\* model_store.predict_proba: probability of the positive class
predict_proba(m, X) ==
    LET probs == ModelProba(m, X)
    IN IF Len(probs[1]) = 1 THEN [i \in DOMAIN X |-> 0]
       ELSE [i \in DOMAIN X |-> probs[i][2]]

----------------------------------------------------------------------------
(* State                                                                   *)

VARIABLES
    file,       \* classifier artifact on disk, per path
    cache,      \* model_store._CACHE: path -> loaded instance
    loaded,     \* what the latest load_model call did, per path
    request,    \* payload of the duplicate check in hand
    rows,       \* rows the retriever returned to that check
    outcome,    \* "idle", "returned" or "raised"
    decision,   \* the decision check_duplicate returned
    record,     \* an identity record submitted to the service
    checkText,  \* the CanonicalText check_duplicate built for it
    stored,     \* the customers row the ingestion path inserted for it
    customers,       \* the customers table
    query_identity,  \* the committed rows of the query_identity table
    pending,         \* per connection, the uncommitted inserts and deletes
    nextQid,         \* the next value of the qid identity column
    conn,            \* the connection each caller passes to topk_by_vector
    call,            \* per caller, the topk_by_vector call in progress
    started,         \* topk_by_vector calls begun so far
    pp,              \* prepare_pairs.main: its arguments, locals and position
    outputFile,      \* the file at output_path
    emitted,         \* the pairs main has emitted, each with its query's id
    pairsFile,       \* the training data files, per path
    qvecsFile,       \* the embedding cache files, per path
    trainResult,     \* what the latest train_ranker.main call returned
    runs,            \* train_ranker.main calls so far
    response,        \* the response to the latest POST /train, and in
                     \* result what main returned to the handler
    applied          \* a call of a pure function: its name, its arguments
                     \* and, once it has returned, its value

storeVars == <<file, cache, loaded>>

checkVars == <<request, rows, outcome, decision>>

canonVars == <<record, checkText, stored>>

topkVars == <<customers, query_identity, pending, nextQid, conn, call, started>>

onlineVars == <<storeVars, checkVars, canonVars>>

pairVars == <<pp, outputFile, emitted>>

trainVars == <<pairsFile, qvecsFile, trainResult, runs, response>>

pureVars == <<applied>>

restVars == <<topkVars, pairVars, trainVars, pureVars>>

offTopk == <<onlineVars, pairVars, trainVars, pureVars>>

offPairs == <<onlineVars, topkVars, trainVars, pureVars>>

offTrain == <<checkVars, canonVars, topkVars, pairVars, pureVars>>

vars == <<file, cache, loaded, request, rows, outcome, decision,
          record, checkText, stored,
          customers, query_identity, pending, nextQid, conn, call, started,
          pp, outputFile, emitted,
          pairsFile, qvecsFile, trainResult, runs, response, applied>>

\* None, where the other values are records
NoneObj == [kind |-> "None"]

----------------------------------------------------------------------------
(* app/model_store.py: the artifact store                                  *)

Paths == {"model.bin", "alt.bin"}

Absent == [kind |-> "absent"]

Corrupt == [kind |-> "corrupt"]

NoEntry == [kind |-> "none"]

\* two fitted models: one weighs the vector similarity, one the phone match
LinearA == [kind |-> "linear", b |-> -5000,
            w |-> <<100, 0, 0, 0, 0, 0, 0, 0, 0, 0>>]

LinearB == [kind |-> "linear", b |-> -2000,
            w |-> <<0, 20, 60, 0, 0, 0, 0, 0, 0, 0>>]

SingleClass == [kind |-> "single"]

Models == {LinearA, LinearB, SingleClass}

\* (a loader that falls back to the rule-based classifier on any failure)
load_model_fallback(path) ==
    IF cache[path] # NoEntry
    THEN [raised |-> FALSE, model |-> cache[path], cache |-> cache, read |-> FALSE]
    ELSE IF file[path] # Absent /\ file[path] # Corrupt
    THEN [raised |-> FALSE, model |-> file[path],
          cache |-> [cache EXCEPT ![path] = file[path]], read |-> TRUE]
    ELSE [raised |-> FALSE, model |-> DefaultModel,
          cache |-> [cache EXCEPT ![path] = DefaultModel], read |-> file[path] # Absent]

\* (a loader that keeps no deserialized artifact)
load_model_uncached(path) ==
    IF cache[path] # NoEntry
    THEN [raised |-> FALSE, model |-> cache[path], cache |-> cache, read |-> FALSE]
    ELSE IF file[path] # Absent
    THEN IF file[path] = Corrupt
         THEN [raised |-> TRUE, model |-> NoneObj, cache |-> cache, read |-> TRUE]
         ELSE [raised |-> FALSE, model |-> file[path], cache |-> cache, read |-> TRUE]
    ELSE [raised |-> FALSE, model |-> DefaultModel,
          cache |-> [cache EXCEPT ![path] = DefaultModel], read |-> FALSE]

\* load_model(path): [raised, model, cache']
load_model(path) ==
    IF cache[path] # NoEntry
    THEN [raised |-> FALSE, model |-> cache[path], cache |-> cache, read |-> FALSE]
    ELSE IF file[path] # Absent
    THEN IF file[path] = Corrupt
         THEN [raised |-> TRUE, model |-> NoneObj, cache |-> cache, read |-> TRUE]
         ELSE [raised |-> FALSE, model |-> file[path],
               cache |-> [cache EXCEPT ![path] = file[path]], read |-> TRUE]
    ELSE [raised |-> FALSE, model |-> DefaultModel,
          cache |-> [cache EXCEPT ![path] = DefaultModel], read |-> FALSE]

\* save_model(model, path): the file after the dump
save_model(model, path) == [file EXCEPT ![path] = model]

\* loaded[path] after a load_model(path) that did r: what the call got, and
\* in expect the model of the save_model(path) completed since the load
\* before it (NoneObj when there was none)
Loaded(path, r) ==
    [loaded EXCEPT ![path] = [raised |-> r.raised, model |-> r.model,
                              expect |-> loaded[path].saved, saved |-> NoneObj,
                              read |-> r.read]]

NoLoad == [raised |-> FALSE, model |-> NoneObj, expect |-> NoneObj,
           saved |-> NoneObj, read |-> FALSE]

\* a caller's load_model(path)
LoadModel(path) ==
    LET r == load_model(path)
    IN /\ cache' = r.cache
       /\ loaded' = Loaded(path, r)
       /\ UNCHANGED file

\* the trainer's save_model(model, path)
SaveModel(model, path) ==
    /\ file' = save_model(model, path)
    /\ loaded' = [loaded EXCEPT ![path].saved = model]
    /\ UNCHANGED cache

----------------------------------------------------------------------------
(* app/embeddings.py                                                       *)

\* A vector is [dim, pt]: its length and, for its direction, a point on a
\* line.  The sentence encoder is opaque: a text of the model is encoded at
\* the point its length selects.
NativeDims == {384, 512, 768}

\* the dimension of the configured sentence encoder (all-MiniLM-L6-v2)
EncoderDim == 384

Encode(text, native) == [dim |-> native, pt |-> Len(text) % 3]

embed_identity(text, native) ==
    LET v == Encode(text, native)
    IN IF v.dim < 512 THEN [v EXCEPT !.dim = v.dim + (512 - v.dim)]
       ELSE IF v.dim > 512 THEN [v EXCEPT !.dim = 512]
       ELSE v

----------------------------------------------------------------------------
(* app/deduper.py                                                          *)

\* dict.get(key, default)
GetD(dict, key, default) == IF key \in DOMAIN dict THEN dict[key] ELSE default

to_query_obj(payload) ==
    [full_name   |-> Get(payload, "full_name"),
     dob         |-> Get(payload, "dob"),
     phone_e164  |-> norm_phone_e164(Get(payload, "phone")),
     email_norm  |-> norm_email(Get(payload, "email")),
     gov_id_norm |-> norm_govid(Get(payload, "gov_id")),
     addr_line   |-> Get(payload, "addr_line"),
     city        |-> Get(payload, "city"),
     state       |-> Get(payload, "state"),
     postal_code |-> Get(payload, "postal_code"),
     country     |-> GetD(payload, "country", <<"I","N">>)]

\* A row of the retriever: <<customer_id, vdist, full_name, dob, phone_e164,
\* email_norm, gov_id_norm, addr_line, city, state, postal_code>>; Python's
\* row[i] is row[i + 1] here.
candidate_dict(row) ==
    [customer_id |-> row[1],
     vdist       |-> row[2],
     full_name   |-> row[3],
     dob         |-> IF row[4] # NoneObj THEN isoformat(row[4]) ELSE None,
     phone_e164  |-> row[5],
     email_norm  |-> row[6],
     gov_id_norm |-> row[7],
     city        |-> row[8],
     state       |-> row[9]]

\* c["score"] = float(p)
WithScore(c, p) ==
    [k \in DOMAIN c \cup {"score"} |-> IF k = "score" THEN p ELSE c[k]]

\* list.sort(key=score, reverse=True): stable, so elements of equal score
\* keep their order.  Insert x behind every element whose score is >= x's.
\* (an insertion that puts x in front of the elements of equal score)
RECURSIVE InsertBeforeTies(_, _)
InsertBeforeTies(sorted, x) ==
    IF sorted = <<>> THEN <<x>>
    ELSE IF Head(sorted).score > x.score
         THEN <<Head(sorted)>> \o InsertBeforeTies(Tail(sorted), x)
         ELSE <<x>> \o sorted

RECURSIVE InsertDesc(_, _)
InsertDesc(sorted, x) ==
    IF sorted = <<>> THEN <<x>>
    ELSE IF Head(sorted).score >= x.score
         THEN <<Head(sorted)>> \o InsertDesc(Tail(sorted), x)
         ELSE <<x>> \o sorted

\* (the same sort without reverse=True: ascending)
RECURSIVE InsertAsc(_, _)
InsertAsc(sorted, x) ==
    IF sorted = <<>> THEN <<x>>
    ELSE IF Head(sorted).score <= x.score
         THEN <<Head(sorted)>> \o InsertAsc(Tail(sorted), x)
         ELSE <<x>> \o sorted

RECURSIVE SortAscending(_)
SortAscending(cands) ==
    IF cands = <<>> THEN <<>>
    ELSE InsertAsc(SortAscending(SubSeq(cands, 1, Len(cands) - 1)), cands[Len(cands)])

RECURSIVE SortDesc(_)
SortDesc(cands) ==
    IF cands = <<>> THEN <<>>
    ELSE InsertDesc(SortDesc(SubSeq(cands, 1, Len(cands) - 1)), cands[Len(cands)])

\* candidates[:n]
Take(seq, n) == SubSeq(seq, 1, Min(n, Len(seq)))

THRESHOLD == 8200

TOPK == 200

TopShown == 10

\* canonical_identity_text of the ten fields of a query or a normalised record
IdentityText(q) ==
    canonical_identity_text(q.full_name, q.dob, q.phone_e164, q.email_norm,
                            q.gov_id_norm, q.addr_line, q.city, q.state,
                            q.postal_code, q.country)

\* the rest of check_duplicate once the rows are retrieved: candidates,
\* feature rows, load_model, scores, sort and decision
Decide(q, identity_text, qvec, retrieved, ld) ==
    LET candidates == [i \in DOMAIN retrieved |-> candidate_dict(retrieved[i])]
        X == [i \in DOMAIN candidates |->
                 feature_row(q, candidates[i], candidates[i].vdist)]
        probs == predict_proba(ld.model, X)
        sorted == SortDesc([i \in DOMAIN candidates |->
                               WithScore(candidates[i], probs[i])])
        result(raised, d) ==
            [raised |-> raised, decision |-> d, load |-> ld, qvec |-> qvec,
             text |-> identity_text]
    IN IF qvec.dim # 512 \/ ld.raised
       THEN result(TRUE, NoneObj)
       ELSE IF Len(retrieved) = 0
       THEN result(FALSE, [is_duplicate |-> FALSE, best_match |-> NoneObj,
                           score |-> 0, candidates |-> <<>>])
       ELSE result(FALSE, [is_duplicate |-> sorted[1].score >= THRESHOLD,
                           best_match |-> sorted[1],
                           score |-> sorted[1].score,
                           candidates |-> Take(sorted, TopShown)])

\* the query of check_duplicate embedded and retrieved
Retrieve(q, identity_text, retrieved) ==
    Decide(q, identity_text, embed_identity(identity_text, EncoderDim), retrieved,
           load_model("model.bin"))

CheckQuery(q, retrieved) == Retrieve(q, IdentityText(q), retrieved)

\* check_duplicate(payload) when the retriever answers with `retrieved`:
\* [raised, decision, load, qvec, text]
check_duplicate(payload, retrieved) == CheckQuery(to_query_obj(payload), retrieved)

----------------------------------------------------------------------------
(* The online check: payloads, stored customers and retrieval results      *)

MaxRows == 11

NameAl == <<"A","l"," ","B">>

Payloads ==
    { [full_name |-> NameAl, dob |-> <<"1","9","9","0","-","0","1","-","0","3">>,
       phone |-> <<"1","2">>, email |-> <<"A","@","x">>, gov_id |-> <<"i","d","1">>,
       addr_line |-> <<"1"," ","R","d">>, city |-> <<"P","u">>, state |-> <<"M","H">>,
       postal_code |-> <<"5","6","0","0","0","1">>, country |-> <<"I","N">>],
      [full_name |-> <<"a","l">>, phone |-> <<"1","2">>] }

\* stored customers as the retriever projects them, without customer_id:
\* a relative sharing the phone, the same person, and a stranger
StoredRows ==
    << <<0, <<"A","l"," ","C">>, [y |-> 1990, m |-> 3, d |-> 1], <<"1","2">>, <<"c","@","x">>,
         <<"I","D","2">>, <<"2"," ","R","d">>, <<"P","u">>, <<"M","H">>,
         <<"5","6","0","0","0","2">> >>,
       <<25, NameAl, [y |-> 1990, m |-> 1, d |-> 3], <<"1","2">>, <<"a","@","x">>,
         <<"I","D","1">>, <<"1"," ","R","d">>, <<"P","u">>, <<"M","H">>,
         <<"5","6","0","0","0","1">> >>,
       <<40, <<"Z","o">>, NoneObj, <<"9","9">>, None,
         <<>>, None, <<"G","o">>, <<"G","A">>, None >> >>

\* the retrieval results of length n: stored customers in ascending order of
\* vector distance, numbered by customer_id in the order retrieved
RECURSIVE Retrievals(_)
Retrievals(n) ==
    IF n = 0 THEN {<<>>}
    ELSE LET shorter == Retrievals(n - 1)
         IN {Append(r, <<n>> \o StoredRows[k]) :
                <<r, k>> \in {<<r, k>> \in shorter \X DOMAIN StoredRows :
                    r = <<>> \/ r[Len(r)][2] <= StoredRows[k][1]}}

RetrievalsUpTo(n) == UNION {Retrievals(k) : k \in 0..n}

\* the state after a check_duplicate call that did r
Respond(payload, retrieved, r) ==
    /\ request' = payload
    /\ rows' = retrieved
    /\ outcome' = IF r.raised THEN "raised" ELSE "returned"
    /\ decision' = r.decision
    /\ cache' = r.load.cache
    /\ loaded' = Loaded("model.bin", r.load)
    /\ UNCHANGED <<file, canonVars, restVars>>

\* POST /dedupe/check: one whole check_duplicate call
CheckDuplicate(payload, retrieved) ==
    /\ outcome = "idle"
    /\ Respond(payload, retrieved, check_duplicate(payload, retrieved))

\* the caller has its response; the decision is discarded
Discard ==
    /\ outcome # "idle"
    /\ request' = NoneObj
    /\ rows' = <<>>
    /\ outcome' = "idle"
    /\ decision' = NoneObj
    /\ UNCHANGED <<storeVars, canonVars, restVars>>

StoreInit ==
    /\ file \in [Paths -> {Absent}]
    /\ cache = [p \in Paths |-> NoEntry]
    /\ loaded = [p \in Paths |-> NoLoad]

CheckIdle ==
    /\ request = NoneObj
    /\ rows = <<>>
    /\ outcome = "idle"
    /\ decision = NoneObj

CanonIdle ==
    /\ record = NoneObj
    /\ checkText = None
    /\ stored = NoneObj

TopkIdle ==
    /\ customers = {}
    /\ query_identity = {}
    /\ pending = <<>>
    /\ nextQid = 1
    /\ conn = <<>>
    /\ call = <<>>
    /\ started = 0

\* a path with no file at it
NoFile == [exists |-> FALSE, lines |-> <<>>]

PairIdle ==
    /\ pp = NoneObj
    /\ outputFile = NoFile
    /\ emitted = <<>>

TrainIdle ==
    /\ pairsFile = <<>>
    /\ qvecsFile = <<>>
    /\ trainResult = NoneObj
    /\ runs = 0
    /\ response = NoneObj

PureIdle == applied = NoneObj

RestIdle == TopkIdle /\ PairIdle /\ TrainIdle /\ PureIdle

Init ==
    /\ file \in {f \in [Paths -> {Absent, Corrupt, LinearA, SingleClass}] :
                    f["alt.bin"] = Absent}
    /\ cache = [p \in Paths |-> NoEntry]
    /\ loaded = [p \in Paths |-> NoLoad]
    /\ CheckIdle
    /\ CanonIdle
    /\ RestIdle

Next ==
    \/ /\ outcome = "idle"
       /\ \E payload \in Payloads :
            \E retrieved \in RetrievalsUpTo(Min(TOPK, MaxRows)) :
               CheckDuplicate(payload, retrieved)
    \/ Discard

Spec == Init /\ [][Next]_vars

----------------------------------------------------------------------------
(* Properties of the online check                                          *)

\* the score the classifier in use gives retrieved row i of the check in hand
RowScore(i) ==
    LET c == candidate_dict(rows[i])
    IN predict_proba(loaded["model.bin"].model,
                     <<feature_row(to_query_obj(request), c, c.vdist)>>)[1]

\* C1: a check whose retrieval is not empty returns is_duplicate =
\* (best_match.score >= THRESHOLD) and score = best_match.score, with the
\* candidates in descending order of score and at most 10 of them.
DecisionShape ==
    (outcome = "returned" /\ rows # <<>>) =>
        LET c == decision.candidates
        IN /\ decision.is_duplicate = (decision.best_match.score >= THRESHOLD)
           /\ decision.score = decision.best_match.score
           /\ \A i \in 1..(Len(c) - 1) : c[i].score >= c[i + 1].score
           /\ Len(c) <= 10

\* a check of 11 retrieved rows came back positive with 10 candidates, and
\* the best match is not the row retrieved first
DecisionShapeWitness ==
    /\ outcome = "returned"
    /\ Len(rows) = 11
    /\ Len(decision.candidates) = 10
    /\ decision.is_duplicate
    /\ decision.best_match.customer_id # 1
    /\ decision.candidates[1].score > decision.candidates[10].score

EmptyDecision ==
    [is_duplicate |-> FALSE, best_match |-> NoneObj, score |-> 0, candidates |-> <<>>]

\* C2: a check whose retrieval is empty returns the empty non-duplicate
\* decision and does not raise.
EmptyRetrievalReturns ==
    (outcome # "idle" /\ rows = <<>>) =>
        (outcome = "returned" /\ decision = EmptyDecision)

\* C3: the sort is stable.  Of two candidates with equal scores the one
\* retrieved first comes first, and best_match is the first retrieved row
\* among those of the top score.
StableOrder ==
    (outcome = "returned" /\ rows # <<>>) =>
        LET c == decision.candidates
            top == {i \in DOMAIN rows : RowScore(i) = decision.score}
        IN /\ \A i, j \in DOMAIN c :
                (i < j /\ c[i].score = c[j].score) => c[i].customer_id < c[j].customer_id
           /\ decision.best_match = c[1]
           /\ \A i \in top : decision.best_match.customer_id <= i

\* two rows tie at the top score behind a row retrieved before them, and
\* the sort moved them in front of it
StableOrderWitness ==
    /\ outcome = "returned"
    /\ Len(decision.candidates) >= 3
    /\ decision.candidates[1].score = decision.candidates[2].score
    /\ decision.candidates[1].customer_id = 2
    /\ decision.candidates[2].customer_id = 3
    /\ decision.candidates[3].customer_id = 1

----------------------------------------------------------------------------
(* The artifact store on its own: callers load, the trainer saves          *)

InitStore ==
    /\ file \in [Paths -> {Absent, Corrupt, LinearA}]
    /\ cache = [p \in Paths |-> NoEntry]
    /\ loaded = [p \in Paths |-> NoLoad]
    /\ CheckIdle
    /\ CanonIdle
    /\ RestIdle

NextStore ==
    \/ \E path \in Paths : LoadModel(path) /\ UNCHANGED <<checkVars, canonVars, restVars>>
    \/ \E path \in Paths, model \in Models :
         SaveModel(model, path) /\ UNCHANGED <<checkVars, canonVars, restVars>>

SpecStore == InitStore /\ [][NextStore]_vars

\* C4: once save_model(m, path) has completed, the next load_model(path)
\* returns m, whatever the cache held for the path before.
LoadAfterSaveReturnsSaved ==
    \A path \in Paths :
        loaded[path].expect # NoneObj =>
            (~loaded[path].raised /\ loaded[path].model = loaded[path].expect)

\* C26: load_model(path) on a file that exists but cannot be deserialized
\* raises instead of falling back to the rule-based classifier, and leaves
\* the cache without an entry for that path, so a later load_model(path)
\* attempts deserialization again; only an absent file selects the
\* rule-based fallback.
CorruptArtifactRaises ==
    \A path \in Paths :
        /\ loaded[path].raised =>
              /\ loaded[path].read
              /\ loaded[path].model = NoneObj
              /\ cache[path] = NoEntry
        /\ (file[path] = Corrupt /\ cache[path] = NoEntry) =>
              /\ load_model(path).raised
              /\ load_model(path).read
              /\ load_model(path).cache = cache
        /\ (cache[path] = NoEntry /\ load_model(path).model = DefaultModel) =>
              file[path] = Absent

\* a load of the corrupt model.bin has raised and the file is as it was
CorruptArtifactRaisesWitness ==
    /\ loaded["model.bin"].raised
    /\ file["model.bin"] = Corrupt
    /\ cache["model.bin"] = NoEntry

\* the latest load_model(path) returned a model
HasReturned(path) == ~loaded[path].raised /\ loaded[path].model # NoneObj

\* a step in which a load_model(path) returned or raised
LoadStep(path) == loaded'[path] # loaded[path] /\ loaded'[path].saved = NoneObj

\* C27: for a fixed path, with no intervening save_model, any number of
\* load_model(path) calls deserialize the artifact at most once and all
\* return the same instance; when no file exists at the path that instance
\* is the rule-based classifier.
LoadsShareInstance ==
    /\ [](\A path \in Paths :
             /\ HasReturned(path) =>
                   /\ cache[path] = loaded[path].model
                   /\ ~load_model(path).read
                   /\ load_model(path).model = loaded[path].model
             /\ (cache[path] = NoEntry /\ file[path] = Absent) =>
                   /\ load_model(path).model = DefaultModel
                   /\ ~load_model(path).read)
    /\ [][\A path \in Paths :
             /\ cache[path] # NoEntry => cache'[path] = cache[path]
             /\ (LoadStep(path) /\ loaded'[path].read /\ ~loaded'[path].raised) =>
                   cache[path] = NoEntry]_vars

\* model.bin was loaded from the file and then again: the second call read
\* nothing and returned the model the first one cached; alt.bin, which does
\* not exist, gave the rule-based classifier
LoadsShareInstanceWitness ==
    /\ file["model.bin"] = LinearA
    /\ loaded["model.bin"].model = LinearA
    /\ ~loaded["model.bin"].read
    /\ loaded["model.bin"].saved = NoneObj
    /\ loaded["model.bin"].expect = NoneObj
    /\ file["alt.bin"] = Absent
    /\ loaded["alt.bin"].model = DefaultModel

----------------------------------------------------------------------------
(* app/api/main.py, scripts/ingest_csv.py: the ingestion path              *)

\* `x or "IN"`
OrIN(x) == IF Truthy(x) THEN x ELSE <<"I","N">>

\* the bind values of the INSERT into customers for the normalised fields
Binds(normed, identity_text) ==
    [k \in DOMAIN normed \cup {"identity_text", "identity_vec"} |->
        CASE k = "identity_text" -> identity_text
          [] k = "identity_vec" -> embed_identity(identity_text, EncoderDim)
          [] OTHER -> normed[k]]

InsertBinds(normed) == Binds(normed, IdentityText(normed))

\* create_customer(cust): the bind values of the INSERT into customers
create_customer(q) ==
    InsertBinds([full_name   |-> Get(q, "full_name"),
                 dob         |-> Get(q, "dob"),
                 phone_e164  |-> norm_phone_e164(Get(q, "phone")),
                 email_norm  |-> norm_email(Get(q, "email")),
                 gov_id_norm |-> norm_govid(Get(q, "gov_id")),
                 addr_line   |-> Get(q, "addr_line"),
                 city        |-> Get(q, "city"),
                 state       |-> Get(q, "state"),
                 postal_code |-> norm_postal_code(Get(q, "postal_code")),
                 country     |-> OrIN(Get(q, "country"))])

\* ingest_data(path): the bind values for one row of the dataset
ingest_row(row) ==
    InsertBinds([full_name   |-> Get(row, "full_name"),
                 dob         |-> Get(row, "dob"),
                 phone_e164  |-> norm_phone_e164(Get(row, "phone")),
                 email_norm  |-> norm_email(Get(row, "email")),
                 gov_id_norm |-> norm_govid(Get(row, "gov_id")),
                 addr_line   |-> Get(row, "addr_line"),
                 city        |-> Get(row, "city"),
                 state       |-> Get(row, "state"),
                 postal_code |-> norm_postal_code(Get(row, "postal_code")),
                 country     |-> OrIN(Get(row, "country"))])

\* The identity records of the model: a Customer after model_dump(), every
\* key present, a null field None.
RawNames == { <<"A","l"," ","B">>, <<"a","l","-","b",".">> }

RawDobs == { None, <<"1","9","9","0","-","0","1","-","0","3">> }

RawPhones == { None, <<"9","8","7","6","5"," ","4","3","2","1","0">>,
               <<"+","9","1","-","9","8","7","6","5","4","3","2","1","0">> }

RawEmails == { None, <<"F",".","B","+","s","@","g","m","a","i","l",".","c","o","m">>,
               <<"U","+","s","@","e",".","c","o","m">> }

RawPostalCodes == { None, <<"5","6","0"," ","0","0","1">>, <<"0","5","6","0","0","0">> }

RawCountries == { None, <<>>, <<"i","n">>, <<"I","N">>, <<"U","S">> }

Records ==
    { [full_name |-> n, dob |-> d, phone |-> ph, email |-> e, gov_id |-> <<"i","d","1">>,
       addr_line |-> <<"1"," ","R","d">>, city |-> <<"P","u">>, state |-> None,
       postal_code |-> pc, country |-> c] :
        n \in RawNames, d \in RawDobs, ph \in RawPhones, e \in RawEmails,
        pc \in RawPostalCodes, c \in RawCountries }

\* a caller holds an identity record
Submit(rec) ==
    /\ record = NoneObj
    /\ record' = rec
    /\ UNCHANGED <<checkText, stored>>

\* POST /dedupe/check for the record: the CanonicalText of the query
CheckText ==
    /\ record # NoneObj
    /\ checkText = None
    /\ checkText' = check_duplicate(record, <<>>).text
    /\ UNCHANGED <<record, stored>>

\* POST /customers for the record
CreateCustomer ==
    /\ record # NoneObj
    /\ stored = NoneObj
    /\ stored' = [via |-> "POST /customers", bind |-> create_customer(record)]
    /\ UNCHANGED <<record, checkText>>

\* the ingestion script reads the record as a row of its dataset
IngestData ==
    /\ record # NoneObj
    /\ stored = NoneObj
    /\ stored' = [via |-> "ingest_data", bind |-> ingest_row(record)]
    /\ UNCHANGED <<record, checkText>>

InitCanon ==
    /\ StoreInit
    /\ CheckIdle
    /\ CanonIdle
    /\ RestIdle

NextCanon ==
    \/ /\ record = NoneObj
       /\ \E rec \in Records : Submit(rec) /\ UNCHANGED <<storeVars, checkVars, restVars>>
    \/ CheckText /\ UNCHANGED <<storeVars, checkVars, restVars>>
    \/ CreateCustomer /\ UNCHANGED <<storeVars, checkVars, restVars>>
    \/ IngestData /\ UNCHANGED <<storeVars, checkVars, restVars>>

SpecCanon == InitCanon /\ [][NextCanon]_vars

\* C5: for every identity record the CanonicalText of the check equals the
\* identity_text the ingestion path stores for the same record.
CheckTextEqualsStoredText ==
    (checkText # None /\ stored # NoneObj) => checkText = stored.bind.identity_text

----------------------------------------------------------------------------
(* app/db.py: the transient-row vector search                              *)

VECTOR_DIM == 512

\* (a length check that rejects short vectors only)
to_vec_array_short_only(vec_f32) ==
    IF vec_f32.dim < VECTOR_DIM
    THEN [raised |-> TRUE, value |-> NoneObj]
    ELSE [raised |-> FALSE, value |-> vec_f32]

\* to_vec_array(vec_f32): [raised, value].  The values of a vector are
\* float32 already, so array('f', ...) keeps them.
to_vec_array(vec_f32) ==
    IF vec_f32.dim # VECTOR_DIM
    THEN [raised |-> TRUE, value |-> NoneObj]
    ELSE [raised |-> FALSE, value |-> vec_f32]

\* VECTOR_DISTANCE(a, b), in hundredths
VectorDistance(a, b) == 25 * Abs(a.pt - b.pt)

Callers == {"c1", "c2"}

Conns == {"A", "B"}

\* a transaction with no work in it
NoTx == [ins |-> {}, del |-> {}]

\* The rows of query_identity a statement on connection cn sees: the
\* committed rows and the connection's own uncommitted inserts, less its
\* own uncommitted deletes (read committed; work of another connection is
\* seen once that connection commits).
Visible(cn) ==
    {r \in query_identity \cup pending[cn].ins : r.qid \notin pending[cn].del}

\* (the same SELECT with ORDER BY qid ASC)
OldestQid(visible) == CHOOSE n \in {r.qid : r \in visible} : \A r \in visible : n <= r.qid

\* SELECT qid FROM query_identity ORDER BY qid DESC FETCH FIRST 1 ROWS ONLY
LatestQid(visible) == CHOOSE n \in {r.qid : r \in visible} : \A r \in visible : r.qid <= n

\* the select list of the search for customer c against the vector qvec
SelectList(c, qvec) ==
    <<c.customer_id, VectorDistance(c.identity_vec, qvec)>> \o c.columns

\* WITH q AS (SELECT qvec FROM query_identity WHERE qid = :qid) SELECT ...
\* FROM customers c CROSS JOIN q ORDER BY vdist FETCH FIRST :k ROWS ONLY:
\* the results the statement can give, rows of equal vdist in any order
SearchResults(q, table, k) ==
    IF q = {} THEN {<<>>}
    ELSE LET qvec == (CHOOSE r \in q : TRUE).qvec
             joined == {SelectList(c, qvec) : c \in table}
             n == Min(k, Cardinality(joined))
         IN {res \in [1..n -> joined] :
                /\ \A i, j \in 1..n : i < j =>
                       (res[i] # res[j] /\ res[i][2] <= res[j][2])
                /\ \A row \in joined :
                       (\A i \in 1..n : res[i] # row) =>
                           (\A i \in 1..n : res[i][2] <= row[2])}

\* the calls of a run
MaxCalls == 3

\* no call in progress
IdleCall ==
    [pc |-> "idle", vec |-> NoneObj, k |-> 0, own |-> 0, qid |-> 0,
     against |-> NoneObj, rows |-> <<>>, removed |-> {}, stmts |-> 0, error |-> ""]

\* topk_by_vector(conn, query_vec, k), line 41: qarr = to_vec_array(query_vec)
Call(p, query_vec, k) ==
    /\ call[p].pc = "idle"
    /\ started < MaxCalls
    /\ started' = started + 1
    /\ call' = [call EXCEPT ![p] =
                   IF to_vec_array(query_vec).raised
                   THEN [IdleCall EXCEPT !.pc = "raised", !.vec = query_vec, !.k = k,
                                         !.error = "ValueError"]
                   ELSE [IdleCall EXCEPT !.pc = "insert", !.vec = query_vec, !.k = k]]
    /\ UNCHANGED <<customers, query_identity, pending, nextQid, conn>>

\* line 44: INSERT INTO query_identity(qvec) VALUES (:1)
Insert(p) ==
    /\ call[p].pc = "insert"
    /\ pending' = [pending EXCEPT ![conn[p]].ins =
                      @ \cup {[qid |-> nextQid, qvec |-> to_vec_array(call[p].vec).value]}]
    /\ nextQid' = nextQid + 1
    /\ call' = [call EXCEPT ![p].pc = "select", ![p].own = nextQid,
                            ![p].stmts = @ + 1]
    /\ UNCHANGED <<customers, query_identity, conn, started>>

\* lines 45-46: the latest qid; fetchone() of no row is None, and None[0]
\* raises TypeError
SelectQid(p) ==
    /\ call[p].pc = "select"
    /\ call' = [call EXCEPT ![p] =
                   IF Visible(conn[p]) = {}
                   THEN [@ EXCEPT !.pc = "raised", !.error = "TypeError",
                                  !.stmts = @ + 1]
                   ELSE [@ EXCEPT !.pc = "search", !.qid = LatestQid(Visible(conn[p])),
                                  !.stmts = @ + 1]]
    /\ UNCHANGED <<customers, query_identity, pending, nextQid, conn, started>>

\* the row of query_identity the search of call c joins with, as a set
QueryRow(p) == {r \in Visible(conn[p]) : r.qid = call[p].qid}

\* lines 48-59: the search and fetchall()
Search(p) ==
    /\ call[p].pc = "search"
    /\ \E res \in SearchResults(QueryRow(p), customers, call[p].k) :
         call' = [call EXCEPT ![p].pc = "delete", ![p].rows = res,
                              ![p].against = IF QueryRow(p) = {} THEN NoneObj
                                             ELSE CHOOSE r \in QueryRow(p) : TRUE,
                              ![p].stmts = @ + 1]
    /\ UNCHANGED <<customers, query_identity, pending, nextQid, conn, started>>

\* (a call that leaves its row in place)
DeleteSkipped(p) ==
    /\ call[p].pc = "delete"
    /\ call' = [call EXCEPT ![p].pc = "commit", ![p].stmts = @ + 1]
    /\ UNCHANGED <<customers, query_identity, pending, nextQid, conn, started>>

\* line 61: DELETE FROM query_identity WHERE qid = :qid
Delete(p) ==
    /\ call[p].pc = "delete"
    /\ pending' = [pending EXCEPT ![conn[p]].del =
                      @ \cup {r.qid : r \in QueryRow(p)}]
    /\ call' = [call EXCEPT ![p].pc = "commit", ![p].removed = QueryRow(p),
                            ![p].stmts = @ + 1]
    /\ UNCHANGED <<customers, query_identity, nextQid, conn, started>>

\* line 62: conn.commit() publishes the work of the connection
Commit(p) ==
    /\ call[p].pc = "commit"
    /\ query_identity' = Visible(conn[p])
    /\ pending' = [pending EXCEPT ![conn[p]] = NoTx]
    /\ call' = [call EXCEPT ![p].pc = "returned"]
    /\ UNCHANGED <<customers, nextQid, conn, started>>

\* the caller has the rows or the exception.  A caller that opened the
\* connection for this call (with get_conn() as conn) closes it, which
\* rolls back what an exception left uncommitted.
Return(p) ==
    /\ call[p].pc \in {"returned", "raised"}
    /\ call' = [call EXCEPT ![p] = IdleCall]
    /\ pending' = IF call[p].pc = "raised" /\ \A o \in Callers \ {p} : conn[o] # conn[p]
                  THEN [pending EXCEPT ![conn[p]] = NoTx]
                  ELSE pending
    /\ UNCHANGED <<customers, query_identity, nextQid, conn, started>>


\* query vectors: two of the configured length, one shorter, one longer
QueryVectors ==
    { [dim |-> VECTOR_DIM, pt |-> 1], [dim |-> VECTOR_DIM, pt |-> 2],
      [dim |-> VECTOR_DIM - 1, pt |-> 1], [dim |-> VECTOR_DIM + 1, pt |-> 2] }

\* the k of a call
Limits == {1, 2}

\* two stored customers, one to each side of the query vectors
CustomerRows ==
    { [customer_id |-> 1, identity_vec |-> [dim |-> VECTOR_DIM, pt |-> 0],
       columns |-> Tail(StoredRows[1])],
      [customer_id |-> 2, identity_vec |-> [dim |-> VECTOR_DIM, pt |-> 3],
       columns |-> Tail(StoredRows[2])] }

\* a row an earlier run left in query_identity
Leftover == [qid |-> 0, qvec |-> [dim |-> VECTOR_DIM, pt |-> 0]]

\* the callers pass one connection, or each its own
Connections == { [p \in Callers |-> "A"], [p \in Callers |-> IF p = "c1" THEN "A" ELSE "B"] }

InitTopk ==
    /\ StoreInit
    /\ CheckIdle
    /\ CanonIdle
    /\ PairIdle
    /\ TrainIdle
    /\ PureIdle
    /\ customers = CustomerRows
    /\ query_identity \in {{}, {Leftover}}
    /\ pending = [cn \in Conns |-> NoTx]
    /\ nextQid = 1
    /\ conn \in Connections
    /\ call = [p \in Callers |-> IdleCall]
    /\ started = 0

NextTopk ==
    \/ /\ started < MaxCalls
       /\ \E p \in Callers, query_vec \in QueryVectors, k \in Limits :
            Call(p, query_vec, k) /\ UNCHANGED offTopk
    \/ \E p \in Callers : Insert(p) /\ UNCHANGED offTopk
    \/ \E p \in Callers : SelectQid(p) /\ UNCHANGED offTopk
    \/ \E p \in Callers : Search(p) /\ UNCHANGED offTopk
    \/ \E p \in Callers : Delete(p) /\ UNCHANGED offTopk
    \/ \E p \in Callers : Commit(p) /\ UNCHANGED offTopk
    \/ \E p \in Callers : Return(p) /\ UNCHANGED offTopk

SpecTopk == InitTopk /\ [][NextTopk]_vars

----------------------------------------------------------------------------
(* Properties of the vector search                                         *)

\* the two tables and the identity column, committed or not
Tables == <<customers, query_identity, pending, nextQid>>

\* call p has read back a qid that is not the one its INSERT generated
Crossed(p) == call[p].qid # 0 /\ call[p].qid # call[p].own

\* the rows inserted after p's own, by another call, that p's connection sees
LaterRows(p) == {r \in Visible(conn[p]) : r.qid > call[p].own}

\* what a call that read another's qid has done with it
CrossedCallUsesOtherRow ==
    \A p \in Callers :
        /\ (call[p].pc \in {"delete", "commit", "returned"} /\ Crossed(p)
               /\ call[p].against # NoneObj) =>
              /\ call[p].against.qid = call[p].qid
              /\ call[p].against.qid # call[p].own
              /\ call[p].rows \in SearchResults({call[p].against}, customers, call[p].k)
        /\ (call[p].pc \in {"commit", "returned"} /\ Crossed(p)) =>
              \A r \in call[p].removed : r.qid # call[p].own /\ r.qid = call[p].qid

\* a SELECT that sees a later row of another call reads that row's qid
SelectReadsOtherQid ==
    \A p \in Callers :
        (call[p].pc = "select" /\ call'[p].pc # "select" /\ LaterRows(p) # {}) =>
            /\ call'[p].qid \in {r.qid : r \in LaterRows(p)}
            /\ call'[p].qid # call[p].own

RaisedBeforeAnyStatement ==
    /\ \A v \in QueryVectors : to_vec_array(v).raised <=> (v.dim # VECTOR_DIM)
    /\ \A p \in Callers :
          call[p].pc # "idle" =>
             /\ (call[p].error = "ValueError") <=> (call[p].vec.dim # VECTOR_DIM)
             /\ call[p].error = "ValueError" => (call[p].stmts = 0 /\ call[p].own = 0)

\* the steps of a call that raises ValueError leave the tables alone
RaisingCallLeavesTables ==
    \A p \in Callers :
        (call[p] # call'[p] /\ (call[p].error = "ValueError" \/ call'[p].error = "ValueError"))
            => UNCHANGED Tables

\* C9: to_vec_array raises ValueError exactly when the length of the vector
\* differs from VECTOR_DIM, and topk_by_vector with such a vector raises
\* before any statement runs: query_identity and customers stay as they were.
WrongLengthRaisesFirst ==
    []RaisedBeforeAnyStatement /\ [][RaisingCallLeavesTables]_vars

\* a call with a vector one too long has raised while the other call's row
\* sits in query_identity
WrongLengthRaisesFirstWitness ==
    \E p, q \in Callers :
        /\ call[p].error = "ValueError"
        /\ call[p].vec.dim = VECTOR_DIM + 1
        /\ call[p].stmts = 0
        /\ call[q].pc = "select"
        /\ \E r \in pending[conn[q]].ins : r.qid = call[q].own

----------------------------------------------------------------------------
(* topk_by_vector called again only after the call before it is over       *)

NextTopkSerial ==
    \/ /\ started < MaxCalls
       /\ \A o \in Callers : call[o].pc = "idle"
       /\ \E p \in Callers, query_vec \in QueryVectors, k \in Limits :
            Call(p, query_vec, k) /\ UNCHANGED offTopk
    \/ \E p \in Callers : Insert(p) /\ UNCHANGED offTopk
    \/ \E p \in Callers : SelectQid(p) /\ UNCHANGED offTopk
    \/ \E p \in Callers : Search(p) /\ UNCHANGED offTopk
    \/ \E p \in Callers : Delete(p) /\ UNCHANGED offTopk
    \/ \E p \in Callers : Commit(p) /\ UNCHANGED offTopk
    \/ \E p \in Callers : Return(p) /\ UNCHANGED offTopk

SpecTopkSerial == InitTopk /\ [][NextTopkSerial]_vars

\* C29: after any sequence of non-overlapping topk_by_vector calls that
\* return normally, the query_identity table holds exactly the rows it held
\* before the first call (each call deletes the one row it inserted and
\* commits), the customers table is unchanged, and each call returns at
\* most k rows.
SerialCallsLeaveTables ==
    /\ [][query_identity' = query_identity /\ customers' = customers]_vars
    /\ [](\A p \in Callers :
             /\ call[p].pc \in {"commit", "returned"} =>
                   /\ call[p].qid = call[p].own
                   /\ {r.qid : r \in call[p].removed} = {call[p].own}
             /\ call[p].pc = "returned" =>
                   /\ pending[conn[p]] = NoTx
                   /\ Len(call[p].rows) <= call[p].k
                   /\ \A r \in query_identity : r.qid # call[p].own)

\* the third call of a run has returned one row for k = 1, the leftover
\* row of query_identity being the only one in the table
SerialCallsLeaveTablesWitness ==
    /\ started = 3
    /\ nextQid = 4
    /\ call["c2"].pc = "returned"
    /\ call["c2"].k = 1
    /\ Len(call["c2"].rows) = 1
    /\ call["c2"].removed # {}
    /\ query_identity = {Leftover}
    /\ customers = CustomerRows

----------------------------------------------------------------------------
(* training/prepare_pairs.py                                               *)

\* None, where the other values are integers
NoInt == -1

\* the chunk size main sets for embedding the customers
EmbedChunk == 64

\* np.linalg.norm(a - b)
Norm(a, b) == Abs(a.pt - b.pt)

\* _row_to_query(row): a DATE becomes its ISO string; str() of a str is
\* the str
_row_to_query(row) ==
    [query_full_name |-> row.full_name,
     query_dob       |-> IF row.dob # NoneObj THEN isoformat(row.dob) ELSE None,
     query_phone     |-> row.phone_e164,
     query_email     |-> row.email_norm,
     query_gov_id    |-> row.gov_id_norm,
     query_addr      |-> row.addr_line,
     query_city      |-> row.city,
     query_state     |-> row.state,
     query_pc        |-> row.postal_code,
     query_ctry      |-> row.country]

\* q_fields | {"cand_customer_id": cand_id, "label": label}
Pair(q_fields, cand_id, label) ==
    [k \in DOMAIN q_fields \cup {"cand_customer_id", "label"} |->
        CASE k = "cand_customer_id" -> cand_id
          [] k = "label" -> label
          [] OTHER -> q_fields[k]]

\* (a search that returns the farthest identity)
_hard_negative_farthest(qvec, exclude_ids, all) ==
    LET outside == {i \in DOMAIN all : all[i].customer_id \notin exclude_ids}
    IN IF outside = {} THEN {NoInt}
       ELSE {all[i].customer_id : i \in
                {i \in outside : \A o \in outside :
                    Norm(all[i].identity_vec, qvec) >= Norm(all[o].identity_vec, qvec)}}

\* _hard_negative(conn, qvec, exclude_ids, all_vecs=..., all_ids=...): the
\* ids it can return, the order argsort gives rows of equal distance being
\* any; {NoInt} when it returns None
_hard_negative(qvec, exclude_ids, all) ==
    LET outside == {i \in DOMAIN all : all[i].customer_id \notin exclude_ids}
    IN IF outside = {} THEN {NoInt}
       ELSE {all[i].customer_id : i \in
                {i \in outside : \A o \in outside :
                    Norm(all[i].identity_vec, qvec) <= Norm(all[o].identity_vec, qvec)}}

\* embed_identities(texts)
embed_identities(texts, native) ==
    [i \in DOMAIN texts |-> embed_identity(texts[i], native)]

\* the dataframe with its identity_vec column: the one the input carries,
\* or the embeddings of the identity_text column
WithVectors(df, has_vec) ==
    IF has_vec THEN df
    ELSE [i \in DOMAIN df |->
             [df[i] EXCEPT !.identity_vec =
                 embed_identities(<<df[i].identity_text>>, EncoderDim)[1]]]

\* the order of two texts of lower-case letters
RECURSIVE TextBefore(_, _)
TextBefore(s, t) ==
    IF s = <<>> THEN t # <<>>
    ELSE IF t = <<>> THEN FALSE
    ELSE IF Head(s) = Head(t) THEN TextBefore(Tail(s), Tail(t))
    ELSE IndexOf(Head(s), LowerLetters) < IndexOf(Head(t), LowerLetters)

RECURSIVE SortTexts(_)
SortTexts(S) ==
    IF S = {} THEN <<>>
    ELSE LET m == CHOOSE t \in S : \A u \in S \ {t} : TextBefore(t, u)
         IN <<m>> \o SortTexts(S \ {m})

\* df.groupby("identity_text"): the groups in the order of their keys, rows
\* of a null key in no group
GroupsOf(df, keys) ==
    [g \in DOMAIN keys |-> SelectSeq(df, LAMBDA r : r.identity_text = keys[g])]

groupby(df) == GroupsOf(df, SortTexts({df[i].identity_text : i \in DOMAIN df} \ {None}))

\* the sequences of m elements of seq at distinct positions
Samples(seq, m) ==
    {[i \in 1..m |-> seq[f[i]]] :
        f \in {f \in [1..m -> DOMAIN seq] : \A i, j \in 1..m : i # j => f[i] # f[j]}}

\* (every positive kept, whatever max_pos_per_query)
AllPositives(positives, max_pos_per_query) == {positives}

\* lines 361-365: random.sample(positives, max_pos_per_query) when there
\* are more positives than that
SampledPositives(positives, max_pos_per_query) ==
    IF max_pos_per_query # NoInt /\ Len(positives) > max_pos_per_query
    THEN Samples(positives, max_pos_per_query)
    ELSE {positives}

\* the header line of the CSV file
Header == [header |-> "query_full_name,...,cand_customer_id,label"]

\* _write_chunk(chunk) on the CSV file: [file, header_written]
_write_chunk(csv, chunk, header_written) ==
    IF chunk = <<>> THEN [file |-> csv, header_written |-> header_written]
    ELSE IF ~header_written
    THEN [file |-> [exists |-> TRUE, lines |-> <<Header>> \o chunk],
          header_written |-> TRUE]
    ELSE [file |-> [exists |-> TRUE, lines |-> csv.lines \o chunk],
          header_written |-> TRUE]

\* (a limit that is reached one pair later)
LimitReachedLate(p) == p.args.max_pairs # NoInt /\ p.total_pairs > p.args.max_pairs

\* (a group of one row is processed like any other)
SingleNever(group) == FALSE

\* line 335: len(group) <= 1
Single(group) == Len(group) <= 1

\* max_pairs is not None and total_pairs >= max_pairs
LimitReached(p) == p.args.max_pairs # NoInt /\ p.total_pairs >= p.args.max_pairs

\* the choices of neg_ids for a group: one _hard_negative result per row
NegativeChoices(records, all) ==
    LET id_set == {records[i].customer_id : i \in DOMAIN records}
        ids == {all[i].customer_id : i \in DOMAIN all} \cup {NoInt}
    IN {negs \in [DOMAIN records -> ids] :
           \A i \in DOMAIN records :
               negs[i] \in _hard_negative(records[i].identity_vec, id_set, all)}

\* lines 360-365: the positives of the query with id cid
PositiveChoices(records, cid, max_pos_per_query) ==
    SampledPositives(SelectSeq([i \in DOMAIN records |-> records[i].customer_id],
                               LAMBDA c : c # cid),
                     max_pos_per_query)

\* main(output_path, input_path, chunk_size, max_pos_per_query, max_pairs)
\* up to the loop over the groups (lines 212-330)
Begin(args, df) ==
    [pc |-> "group", args |-> args,
     chunk_size |-> IF args.has_vec THEN args.chunk_size ELSE EmbedChunk,
     df |-> df, groups |-> groupby(df), records |-> <<>>, neg_ids |-> <<>>,
     i |-> 0, positives |-> <<>>, pairs |-> <<>>, header_written |-> FALSE,
     total_pairs |-> 0]

Main(args) ==
    /\ pp = NoneObj
    /\ pp' = Begin(args, WithVectors(args.df, args.has_vec))
    /\ UNCHANGED <<outputFile, emitted>>

\* pairs.append(pair); total_pairs += 1; the flush of a full buffer
Appended(p, buffer, written) ==
    IF Len(buffer) >= p.chunk_size
    THEN [p EXCEPT !.pairs = <<>>, !.total_pairs = @ + 1,
                   !.header_written = written.header_written]
    ELSE [p EXCEPT !.pairs = buffer, !.total_pairs = @ + 1]

Emit(p, buffer, written) ==
    /\ pp' = Appended(p, buffer, written)
    /\ outputFile' = IF Len(buffer) >= p.chunk_size THEN written.file ELSE outputFile

EmitPair(p, pair) ==
    Emit(p, Append(p.pairs, pair),
         _write_chunk(outputFile, Append(p.pairs, pair), p.header_written))

\* lines 332-355: the next group, its neg_ids mined
GroupStep ==
    /\ pp # NoneObj
    /\ pp.pc = "group"
    /\ IF LimitReached(pp) \/ pp.groups = <<>>
       THEN pp' = [pp EXCEPT !.pc = "flush"]
       ELSE IF Single(Head(pp.groups))
       THEN pp' = [pp EXCEPT !.groups = Tail(@)]
       ELSE \E negs \in NegativeChoices(Head(pp.groups), pp.df) :
               pp' = [pp EXCEPT !.groups = Tail(@), !.records = Head(pp.groups),
                                !.neg_ids = negs, !.i = 1, !.pc = "query"]
    /\ UNCHANGED <<outputFile, emitted>>

\* lines 357-365: the next query of the group and its positives
QueryStep ==
    /\ pp # NoneObj
    /\ pp.pc = "query"
    /\ IF pp.i > Len(pp.records) \/ LimitReached(pp)
       THEN pp' = [pp EXCEPT !.pc = "group"]
       ELSE \E pos \in PositiveChoices(pp.records, pp.records[pp.i].customer_id,
                                       pp.args.max_pos_per_query) :
               pp' = [pp EXCEPT !.positives = pos, !.pc = "positive"]
    /\ UNCHANGED <<outputFile, emitted>>

\* lines 366-380: one positive pair
PositiveStep ==
    /\ pp # NoneObj
    /\ pp.pc = "positive"
    /\ IF pp.positives = <<>> \/ LimitReached(pp)
       THEN /\ pp' = [pp EXCEPT !.positives = <<>>, !.pc = "negative"]
            /\ UNCHANGED <<outputFile, emitted>>
       ELSE /\ EmitPair([pp EXCEPT !.positives = Tail(@)],
                        Pair(_row_to_query(pp.records[pp.i]), Head(pp.positives), 1))
            /\ emitted' = Append(emitted, [query |-> pp.records[pp.i].customer_id,
                                           cand |-> Head(pp.positives), label |-> 1])

\* lines 381-393: the hard negative of the query
NegativeStep ==
    /\ pp # NoneObj
    /\ pp.pc = "negative"
    /\ IF LimitReached(pp)
       THEN /\ pp' = [pp EXCEPT !.pc = "group"]
            /\ UNCHANGED <<outputFile, emitted>>
       ELSE IF pp.neg_ids[pp.i] # NoInt
       THEN /\ EmitPair([pp EXCEPT !.i = @ + 1, !.pc = "query"],
                        Pair(_row_to_query(pp.records[pp.i]), pp.neg_ids[pp.i], 0))
            /\ emitted' = Append(emitted, [query |-> pp.records[pp.i].customer_id,
                                           cand |-> pp.neg_ids[pp.i], label |-> 0])
       ELSE /\ pp' = [pp EXCEPT !.i = @ + 1, !.pc = "query"]
            /\ UNCHANGED <<outputFile, emitted>>

\* lines 395-396: the final flush
Finish ==
    /\ pp # NoneObj
    /\ pp.pc = "flush"
    /\ pp' = [pp EXCEPT !.pc = "done",
                        !.header_written =
                            _write_chunk(outputFile, pp.pairs, @).header_written]
    /\ outputFile' = _write_chunk(outputFile, pp.pairs, pp.header_written).file
    /\ UNCHANGED emitted

\* the largest max_pairs of the model
MaxPairsArg == 3

\* a customers row of the input
Customer(id, text, pt, dob) ==
    [customer_id |-> id, identity_text |-> text,
     identity_vec |-> [dim |-> VECTOR_DIM, pt |-> pt],
     full_name |-> text, dob |-> dob, phone_e164 |-> None, email_norm |-> None,
     gov_id_norm |-> None, addr_line |-> None, city |-> None, state |-> None,
     postal_code |-> None, country |-> <<"I","N">>]

TextA == <<"a">>

TextB == <<"b","b">>

TextC == <<"c","c","c">>

\* a cluster of three, a cluster of two and a single identity, interleaved
Mixed ==
    << Customer(4, TextB, 2, NoneObj), Customer(1, TextA, 0, [y |-> 1990, m |-> 1, d |-> 3]),
       Customer(6, TextC, 1, NoneObj), Customer(2, TextA, 1, NoneObj),
       Customer(5, TextB, 4, NoneObj), Customer(3, TextA, 0, NoneObj) >>

\* one cluster of two and nothing else
OneCluster == << Customer(1, TextA, 0, NoneObj), Customer(2, TextA, 3, NoneObj) >>

\* two single identities
Singles == << Customer(1, TextA, 0, NoneObj), Customer(2, TextB, 3, NoneObj) >>

Datasets == {Mixed, OneCluster, Singles}

\* the CSV file an earlier run wrote: the header and one pair
Stale ==
    [exists |-> TRUE,
     lines |-> <<Header, Pair(_row_to_query(Customer(8, TextC, 1, NoneObj)), 9, 1)>>]

Arguments ==
    [df : Datasets, has_vec : BOOLEAN, chunk_size : {1, 3, 10000},
     max_pos_per_query : {NoInt, 0, 1, 5}, max_pairs : {NoInt} \cup 0..MaxPairsArg]

InitPairs ==
    /\ StoreInit
    /\ CheckIdle
    /\ CanonIdle
    /\ TopkIdle
    /\ TrainIdle
    /\ PureIdle
    /\ pp = NoneObj
    /\ outputFile \in {NoFile, Stale}
    /\ emitted = <<>>

NextPairs ==
    \/ /\ pp = NoneObj
       /\ \E args \in Arguments : Main(args) /\ UNCHANGED offPairs
    \/ GroupStep /\ UNCHANGED offPairs
    \/ QueryStep /\ UNCHANGED offPairs
    \/ PositiveStep /\ UNCHANGED offPairs
    \/ NegativeStep /\ UNCHANGED offPairs
    \/ Finish /\ UNCHANGED offPairs

SpecPairs == InitPairs /\ [][NextPairs]_vars

----------------------------------------------------------------------------
(* Properties of pair generation                                           *)

\* the identities sharing the identity_text of row r: its cluster
ClusterIds(r) ==
    {pp.df[i].customer_id : i \in {i \in DOMAIN pp.df :
                                      pp.df[i].identity_text = r.identity_text}}

\* the emitted pairs of the given label whose query is row r
EmittedFor(r, label) ==
    {n \in DOMAIN emitted : emitted[n].query = r.customer_id /\ emitted[n].label = label}

\* min(n - 1, max_pos_per_query), None being no cap
PositiveCap(r) ==
    IF pp.args.max_pos_per_query = NoInt THEN Cardinality(ClusterIds(r)) - 1
    ELSE Min(Cardinality(ClusterIds(r)) - 1, pp.args.max_pos_per_query)

\* C7: for every member of a cluster of size n acting as query at most
\* min(n - 1, max_pos_per_query) positive pairs are emitted and at most one
\* negative pair, whose candidate is no member of the query's cluster.
PairsPerQuery ==
    pp # NoneObj =>
        \A i \in DOMAIN pp.df :
            /\ Cardinality(EmittedFor(pp.df[i], 1)) <= PositiveCap(pp.df[i])
            /\ Cardinality(EmittedFor(pp.df[i], 0)) <= 1
            /\ \A n \in EmittedFor(pp.df[i], 0) :
                   emitted[n].cand \notin ClusterIds(pp.df[i])

\* a run over the mixed data with max_pos_per_query = 1 and max_pairs = 3
\* is done: identity 1, of the cluster of three, has one positive and one
\* negative, and the cut left identity 2 with one positive and no negative
PairsPerQueryWitness ==
    /\ pp # NoneObj
    /\ pp.pc = "done"
    /\ pp.args.df = Mixed
    /\ pp.args.max_pos_per_query = 1
    /\ pp.args.max_pairs = 3
    /\ Cardinality(EmittedFor(Mixed[2], 1)) = 1
    /\ Cardinality(EmittedFor(Mixed[2], 0)) = 1
    /\ Cardinality(EmittedFor(Mixed[4], 1)) = 1
    /\ EmittedFor(Mixed[4], 0) = {}

\* the rows outside the cluster of row r
Outside(r) == {i \in DOMAIN pp.df : pp.df[i].identity_text # r.identity_text}

\* the customer_id of row i is an identity nearest to r outside r's cluster
NearestOutside(r) ==
    {pp.df[i].customer_id : i \in
        {i \in Outside(r) : \A o \in Outside(r) :
            Norm(pp.df[i].identity_vec, r.identity_vec)
                <= Norm(pp.df[o].identity_vec, r.identity_vec)}}

\* C8: with max_pairs unset, every query row of a cluster of two or more
\* gets exactly one hard negative when an identity lies outside its cluster,
\* and that negative is at minimal vector distance among those outside.
NearestNegative ==
    (pp # NoneObj /\ pp.pc = "done" /\ pp.args.max_pairs = NoInt) =>
        \A i \in DOMAIN pp.df :
            (Cardinality(ClusterIds(pp.df[i])) >= 2 /\ Outside(pp.df[i]) # {}) =>
                /\ Cardinality(EmittedFor(pp.df[i], 0)) = 1
                /\ \A n \in EmittedFor(pp.df[i], 0) :
                       emitted[n].cand \in NearestOutside(pp.df[i])

\* a run over the mixed data, vectors from the input, is done: identity 4
\* got identity 6 as its negative, which ties with identity 2, and identity
\* 1 got identity 6, the nearest of three outside
NearestNegativeWitness ==
    /\ pp # NoneObj
    /\ pp.pc = "done"
    /\ pp.args.df = Mixed
    /\ pp.args.has_vec
    /\ pp.args.max_pairs = NoInt
    /\ \E n \in DOMAIN emitted : emitted[n] = [query |-> 4, cand |-> 6, label |-> 0]
    /\ \E n \in DOMAIN emitted : emitted[n] = [query |-> 1, cand |-> 6, label |-> 0]
    /\ NearestOutside(Mixed[1]) = {2, 6}

\* the rows of the CSV file below its first line
FileRows == IF outputFile.lines = <<>> THEN <<>> ELSE Tail(outputFile.lines)

\* the pair main appended for an emission
PairOf(e) ==
    Pair(_row_to_query(CHOOSE r \in Range(pp.df) : r.customer_id = e.query), e.cand, e.label)

\* C22: when prepare_pairs.main returns (CSV output), the output file holds
\* exactly the sequence of emitted pairs in emission order: every emitted
\* pair is written exactly once, none is lost or duplicated, and the header
\* is written exactly once.
OutputHoldsEmitted ==
    (pp # NoneObj /\ pp.pc = "done") =>
        /\ Len(FileRows) = Len(emitted)
        /\ \A n \in DOMAIN emitted : FileRows[n] = PairOf(emitted[n])
        /\ emitted # <<>> => outputFile.lines[1] = Header
        /\ \A n \in DOMAIN FileRows : FileRows[n] # Header

\* the number of identities sharing the identity_text of row r
ClusterSize(r) == Cardinality(ClusterIds(r))

\* the row of the input with the given customer_id
RowOf(id) == CHOOSE r \in Range(pp.df) : r.customer_id = id

\* the limits leave every query its positives: max_pos_per_query is not 0
\* and max_pairs, when set, is not below the number of pairs
Unlimited(n) ==
    /\ pp.args.max_pos_per_query # 0
    /\ pp.args.max_pairs = NoInt \/ pp.args.max_pairs >= n

\* C23: only identities whose CanonicalText is shared by at least one other
\* identity appear as a query or as a positive candidate: a group of size 1
\* contributes no pair of either label, and a group of two rows with no
\* available hard negative yields exactly the two positive pairs, each row
\* being the candidate of the other (the limits leaving room for them).
OnlyClustersPaired ==
    pp # NoneObj =>
        /\ \A n \in DOMAIN emitted :
              /\ ClusterSize(RowOf(emitted[n].query)) >= 2
              /\ emitted[n].label = 1 =>
                    /\ emitted[n].cand # emitted[n].query
                    /\ emitted[n].cand \in ClusterIds(RowOf(emitted[n].query))
        /\ \A i \in DOMAIN pp.df :
              ClusterSize(pp.df[i]) = 1 =>
                  EmittedFor(pp.df[i], 0) \cup EmittedFor(pp.df[i], 1) = {}
        /\ (pp.pc = "done" /\ pp.args.df = OneCluster /\ Unlimited(2)) =>
              emitted = << [query |-> 1, cand |-> 2, label |-> 1],
                           [query |-> 2, cand |-> 1, label |-> 1] >>

\* a run over the mixed data is done: identity 4, of the cluster of two,
\* was a query, and the single identity 6 was none, though it is the
\* negative of a pair
OnlyClustersPairedWitness ==
    /\ pp # NoneObj
    /\ pp.pc = "done"
    /\ pp.args.df = Mixed
    /\ pp.args.max_pairs = NoInt
    /\ EmittedFor(Mixed[1], 1) # {}
    /\ EmittedFor(Mixed[3], 0) \cup EmittedFor(Mixed[3], 1) = {}
    /\ \E n \in DOMAIN emitted : emitted[n].cand = 6 /\ emitted[n].label = 0

\* a run over the cluster of two with the default limits is done
TwoRowClusterDone ==
    /\ pp # NoneObj
    /\ pp.pc = "done"
    /\ pp.args.df = OneCluster
    /\ pp.args.max_pos_per_query = 5
    /\ pp.args.max_pairs = NoInt
    /\ Len(emitted) = 2

\* C24: for every caller-supplied chunk_size >= 1 the in-memory pair buffer
\* of prepare_pairs.main never holds more than chunk_size pairs, both when
\* the input already carries an identity_vec column and when embeddings are
\* computed inside main.
BufferWithinChunkSize ==
    pp # NoneObj => Len(pp.pairs) <= pp.args.chunk_size

\* the number of pairs a run over df emits when max_pairs is unset
PairsWithoutLimit ==
    LET RECURSIVE Sum(_)
        Sum(i) ==
            IF i = 0 THEN 0
            ELSE Sum(i - 1) +
                 (IF ClusterSize(pp.df[i]) < 2 THEN 0
                  ELSE PositiveCap(pp.df[i]) + (IF Outside(pp.df[i]) = {} THEN 0 ELSE 1))
    IN Sum(Len(pp.df))

\* C25: for every max_pairs >= 0 passed to prepare_pairs.main, the number
\* of pairs emitted never exceeds max_pairs at any point of the run, and at
\* return it equals the minimum of max_pairs and the number of pairs the
\* same run would emit without a limit.
EmittedWithinMaxPairs ==
    (pp # NoneObj /\ pp.args.max_pairs # NoInt) =>
        /\ Len(emitted) <= pp.args.max_pairs
        /\ pp.total_pairs = Len(emitted)
        /\ pp.pc = "done" => Len(emitted) = Min(pp.args.max_pairs, PairsWithoutLimit)

\* a run over the mixed data, which holds 13 pairs, stopped at max_pairs = 3
EmittedWithinMaxPairsWitness ==
    /\ pp # NoneObj
    /\ pp.pc = "done"
    /\ pp.args.max_pairs = 3
    /\ pp.args.max_pos_per_query = NoInt
    /\ pp.args.df = Mixed
    /\ PairsWithoutLimit = 13
    /\ Len(emitted) = 3

\* a run over the cluster of two ended with its 2 pairs, below max_pairs = 3
BelowMaxPairsDone ==
    /\ pp # NoneObj
    /\ pp.pc = "done"
    /\ pp.args.max_pairs = 3
    /\ pp.args.df = OneCluster
    /\ PairsWithoutLimit = 2
    /\ Len(emitted) = 2

----------------------------------------------------------------------------
(* training/data_loader.py, training/train_ranker.py                       *)

\* a file path, by its stem and its suffix
PathOf(stem, suffix) == [stem |-> stem, suffix |-> suffix]

\* a pairs_path of None (or of "")
NoPath == PathOf("", "")

\* Path(p).with_suffix(s)
with_suffix(p, s) == [p EXCEPT !.suffix = s]

\* Path("cached_qvecs.npy")
CachedQvecs == PathOf("cached_qvecs", ".npy")

\* the columns of a pairs table that hold the query's fields
QueryColumns ==
    {"query_full_name", "query_dob", "query_phone", "query_email", "query_gov_id",
     "query_addr", "query_city", "query_state", "query_pc", "query_ctry"}

\* the NaN pandas gives for a missing value
NaN == <<"<NaN>">>

\* a number pandas read from a column of digits: an int64, or a float64 when
\* the column misses a value
Number(digits, float) == <<IF float THEN "<float>" ELSE "<int>">> \o digits

IsNumber(v) == v # <<>> /\ v[1] \in {"<float>", "<int>"}

\* a field csv.DictWriter wrote as the empty text
Missing(v) == v = None \/ v = <<>>

AllDigits(s) == s # <<>> /\ \A i \in DOMAIN s : IsDigit(s[i])

\* the columns read_csv infers as numeric: every value present is digits
NumericColumn(table, k) ==
    /\ \E i \in DOMAIN table : ~Missing(table[i][k])
    /\ \A i \in DOMAIN table : Missing(table[i][k]) \/ AllDigits(table[i][k])

\* the digits of int(s)
RECURSIVE StripZeros(_)
StripZeros(s) == IF Len(s) > 1 /\ s[1] = "0" THEN StripZeros(Tail(s)) ELSE s

\* pd.read_csv(path) of a file of lines: [raised, error, df].  An empty file
\* raises EmptyDataError; the first line is the header.  Under dtype=str no
\* column is read as numbers.  cand_customer_id and label, which main
\* passes to int(), are numbers in the model already.
read_csv(lines, dtype_str) ==
    IF lines = <<>> THEN [raised |-> TRUE, error |-> "EmptyDataError", df |-> <<>>]
    ELSE [raised |-> FALSE, error |-> "",
          df |-> [i \in DOMAIN Tail(lines) |->
                    [k \in DOMAIN Tail(lines)[i] |->
                        IF k \notin QueryColumns THEN Tail(lines)[i][k]
                        ELSE IF Missing(Tail(lines)[i][k]) THEN NaN
                        ELSE IF ~dtype_str /\ NumericColumn(Tail(lines), k)
                        THEN Number(StripZeros(Tail(lines)[i][k]),
                                    \E j \in DOMAIN Tail(lines) : Missing(Tail(lines)[j][k]))
                        ELSE Tail(lines)[i][k]]]]

\* pd.read_parquet(path): the table as it was written
read_parquet(lines) == [raised |-> FALSE, error |-> "", df |-> lines]

\* load_dataframe(path) of a file (the paths of the model are no directories)
load_dataframe(path, lines) ==
    IF path.suffix = ".csv" THEN read_csv(lines, FALSE)
    ELSE IF path.suffix \in {".parquet", ".pq"} THEN read_parquet(lines)
    ELSE [raised |-> TRUE, error |-> "ValueError", df |-> <<>>]

\* str(v) of a field of the dataframe
Str(v) ==
    IF v = NaN THEN <<"n","a","n">>
    ELSE IF IsNumber(v)
    THEN (IF v[1] = "<float>" THEN Tail(v) \o <<".","0">> ELSE Tail(v))
    ELSE v

\* the q of a pairs row r
QueryOf(r) ==
    [full_name   |-> r.query_full_name,
     dob         |-> r.query_dob,
     phone_e164  |-> r.query_phone,
     email_norm  |-> r.query_email,
     gov_id_norm |-> r.query_gov_id,
     addr_line   |-> r.query_addr,
     city        |-> r.query_city,
     state       |-> r.query_state,
     postal_code |-> norm_postal_code(IF r.query_pc # None THEN Str(r.query_pc) ELSE None),
     country     |-> r.query_ctry]

\* canonical_identity_text raises AttributeError for a field that is a float
\* or an int: it has no strip and no lower
NotText(q) ==
    \E k \in DOMAIN q \ {"postal_code"} : q[k] = NaN \/ IsNumber(q[k])

\* (a test that finds every path)
path_exists_always(path) == TRUE

\* os.path.exists(pairs_path)
path_exists(path) == pairsFile[path].exists

\* math.ceil(len(texts) / chunk_size): the embed_identities calls of a run
Chunks(n) == (n + EmbedChunk - 1) \div EmbedChunk

\* LogisticRegression.fit(X, y): the model the solver arrives at, w; it
\* raises ValueError unless y holds two classes
fit(X, y, w) ==
    IF Cardinality({y[i] : i \in DOMAIN y}) < 2
    THEN [raised |-> TRUE, model |-> NoneObj]
    ELSE [raised |-> FALSE, model |-> w]

\* model.score(X, y): the rows predicted as labelled, of len(y)
score(model, X, y) ==
    Cardinality({i \in DOMAIN X :
        (IF predict_proba(model, X)[i] > 5000 THEN 1 ELSE 0) = y[i]})

\* what a call of main gives back: a dict, or an exception
Returned(success, message, pairs_processed, accuracy) ==
    [raised |-> FALSE, error |-> "", success |-> success, message |-> message,
     pairs_processed |-> pairs_processed, accuracy |-> accuracy]

Raised(error) ==
    [raised |-> TRUE, error |-> error, success |-> FALSE, message |-> <<>>,
     pairs_processed |-> 0, accuracy |-> 0]

\* {"success": False, "message": f"Training data not found: {pairs_path}"}
NotFound(pairs_path) ==
    Returned(FALSE, <<"Training data not found: ", pairs_path>>, 0, 0)

\* a run of main: its result, the files after it, the embed_identities and
\* fetch_candidate_row calls it made, and the texts and vectors it paired
Ran(result, caches, artifacts, embeds, fetches, texts, qvecs) ==
    [result |-> result, qvecsFile |-> caches, file |-> artifacts,
     embeds |-> embeds, fetches |-> fetches, texts |-> texts, qvecs |-> qvecs]

\* fetch_candidate_row(conn, customer_id, qvec) on a connection of its own:
\* [raised, cand]; fetchone() gives None for an unknown customer_id, and
\* candidate_dict(None) raises TypeError
fetch_candidate_row(table, customer_id, qvec) ==
    IF to_vec_array(qvec).raised \/ \A c \in table : c.customer_id # customer_id
    THEN [raised |-> TRUE, cand |-> NoneObj]
    ELSE [raised |-> FALSE,
          cand |-> candidate_dict(SelectList(
                       CHOOSE c \in table : c.customer_id = customer_id, qvec))]

\* main from line 200: the features of every pair, the fit, save_model and
\* the result.  joblib hands every row to a worker; embeds and fetches
\* count the run's embed_identities and fetch_candidate_row calls.
Processed(df, queries, texts, qvecs, caches, embeds, w, cands) ==
    IF \E i \in DOMAIN cands : cands[i].raised
    THEN Ran(Raised(IF \E i \in DOMAIN qvecs : to_vec_array(qvecs[i]).raised
                    THEN "ValueError" ELSE "TypeError"),
             caches, file, embeds, Len(df), texts, qvecs)
    ELSE LET X == [i \in DOMAIN df |->
                      feature_row(queries[i], cands[i].cand, cands[i].cand.vdist)]
             y == [i \in DOMAIN df |-> df[i].label]
         IN IF fit(X, y, w).raised
            THEN Ran(Raised("ValueError"), caches, file, embeds, Len(df), texts, qvecs)
            ELSE Ran(Returned(TRUE, <<"Model trained successfully">>, Len(df),
                              score(fit(X, y, w).model, X, y)),
                     caches, save_model(fit(X, y, w).model, "model.bin"),
                     embeds, Len(df), texts, qvecs)

\* main from line 183: the vectors of the cache file, or the embeddings of
\* the texts, which np.save writes to the cache file
Embedded(df, queries, texts, cache_path, w, qvecs, reuse) ==
    Processed(df, queries, texts, qvecs,
              IF reuse THEN qvecsFile
              ELSE [qvecsFile EXCEPT ![cache_path] = [exists |-> TRUE, rows |-> qvecs]],
              IF reuse THEN 0 ELSE Chunks(Len(texts)), w,
              [i \in DOMAIN df |->
                  fetch_candidate_row(CustomerRows, df[i].cand_customer_id, qvecs[i])])

\* main from line 170: the cache is reused when it holds as many vectors as
\* there are texts
Cached(df, queries, texts, cache_path, w) ==
    IF qvecsFile[cache_path].exists /\ Len(qvecsFile[cache_path].rows) = Len(texts)
    THEN Embedded(df, queries, texts, cache_path, w, qvecsFile[cache_path].rows, TRUE)
    ELSE Embedded(df, queries, texts, cache_path, w,
                  embed_identities(texts, EncoderDim), FALSE)

\* main from line 125: the queries and their canonical texts
Prepared(df, queries, cache_path, w) ==
    IF \E i \in DOMAIN queries : NotText(queries[i])
    THEN Ran(Raised("AttributeError"), qvecsFile, file, 0, 0, <<>>, <<>>)
    ELSE Cached(df, queries, [i \in DOMAIN queries |-> IdentityText(queries[i])],
                cache_path, w)

FromFrame(ld, cache_path, w) ==
    IF ld.raised THEN Ran(Raised(ld.error), qvecsFile, file, 0, 0, <<>>, <<>>)
    ELSE Prepared(ld.df, [i \in DOMAIN ld.df |-> QueryOf(ld.df[i])], cache_path, w)

\* main(pairs_path, data_path=...): generated is the CSV file
\* generate_pairs_df has prepare_pairs write when no pairs_path is given,
\* w the model the solver arrives at
main(pairs_path, generated, w) ==
    IF pairs_path # NoPath
    THEN IF ~path_exists(pairs_path)
         THEN Ran(NotFound(pairs_path), qvecsFile, file, 0, 0, <<>>, <<>>)
         ELSE FromFrame(load_dataframe(pairs_path, pairsFile[pairs_path].lines),
                        with_suffix(pairs_path, ".qvecs.npy"), w)
    ELSE FromFrame(read_csv(generated, TRUE), CachedQvecs, w)

\* the calls of main in a behaviour of the model
MaxRuns == 2

\* the state after a run r of main(pairs_path, ...)
Finished(pairs_path, r) ==
    /\ file' = r.file
    /\ loaded' = IF r.file = file THEN loaded
                 ELSE [loaded EXCEPT !["model.bin"].saved = r.file["model.bin"]]
    /\ qvecsFile' = r.qvecsFile
    /\ trainResult' = [pairs_path |-> pairs_path, result |-> r.result,
                       embeds |-> r.embeds, fetches |-> r.fetches,
                       texts |-> r.texts, qvecs |-> r.qvecs]
    /\ runs' = runs + 1
    /\ UNCHANGED <<cache, pairsFile>>

\* a query with every field present, its texts not digits alone
TrainQuery(name, pc) ==
    [query_full_name |-> name, query_dob |-> isoformat([y |-> 1990, m |-> 1, d |-> 3]),
     query_phone |-> <<"1","2"," ","3">>, query_email |-> <<"a","@","x">>,
     query_gov_id |-> <<"I","D","1">>, query_addr |-> <<"1"," ","R","d">>,
     query_city |-> <<"P","u">>, query_state |-> <<"M","H">>,
     query_pc |-> pc, query_ctry |-> <<"I","N">>]

Pin == <<"5","6","0","0","0","1">>

\* pairs tables: a positive and a negative pair, the same of other queries,
\* a positive pair alone, a pair of a customer the table does not hold,
\* pairs that miss fields, and no pair
Balanced == << Pair(TrainQuery(NameAl, Pin), 1, 1), Pair(TrainQuery(NameAl, Pin), 2, 0) >>

Sparse ==
    << Pair(_row_to_query(Customer(1, TextA, 0, NoneObj)), 1, 1),
       Pair(_row_to_query(Customer(2, TextB, 3, NoneObj)), 1, 0) >>

TrainTables ==
    { Balanced,
      << Pair(TrainQuery(<<"Z","o">>, Pin), 2, 1), Pair(TrainQuery(<<"Z","o","e">>, None), 1, 0) >>,
      << Pair(TrainQuery(NameAl, Pin), 1, 1) >>,
      << Pair(TrainQuery(NameAl, Pin), 9, 1), Pair(TrainQuery(NameAl, Pin), 2, 0) >>,
      Sparse,
      << >> }

TrainPaths == {PathOf("pairs", ".csv"), PathOf("pairs", ".parquet")}

CachePaths == {with_suffix(p, ".qvecs.npy") : p \in TrainPaths} \cup {CachedQvecs}

\* the file of a table at a path: a CSV file starts with the header
TableFile(path, table) ==
    [exists |-> TRUE, lines |-> IF path.suffix = ".parquet" THEN table ELSE <<Header>> \o table]

\* the files a path can hold: none, an empty CSV file, or one of a table
FilesAt(path) ==
    {NoFile} \cup
    (CASE path.suffix = ".csv" ->
            {TableFile(path, t) : t \in TrainTables} \cup {[exists |-> TRUE, lines |-> <<>>]}
       [] path.suffix = ".parquet" -> {TableFile(path, Sparse)}
       [] OTHER -> {TableFile(path, Balanced)})

\* the CSV files generate_pairs_df reads back: an empty one when no pair
\* was written
Generated == {<<>>, <<Header>> \o Balanced}

\* generate_pairs_df runs only when no pairs_path is given
GeneratedFor(pairs_path) == IF pairs_path = NoPath THEN Generated ELSE {<<>>}

\* the models the solver can arrive at
Solutions == {LinearA, LinearB}

\* a call of train_ranker.main
TrainMain(pairs_path, generated, w) ==
    /\ runs < MaxRuns
    /\ \E r \in {main(pairs_path, generated, w)} : Finished(pairs_path, r)
    /\ UNCHANGED response

\* train(req) of app/api/main.py for the result main gave: what the handler
\* returns, FastAPI answering 200 with it, or 500 when main raised
train(result) ==
    IF result.raised
    THEN [status_code |-> 500, body |-> [detail |-> "Internal Server Error"]]
    ELSE [status_code |-> 200, body |-> [status |-> "trained"]]

Answered(resp, result) ==
    [status_code |-> resp.status_code, body |-> resp.body, result |-> result]

\* POST /train with a body whose csv_path is data_path
PostTrain(data_path, generated, w) ==
    /\ runs < MaxRuns
    /\ \E r \in {main(data_path, generated, w)} :
          /\ Finished(data_path, r)
          /\ response' = Answered(train(r.result), r.result)

\* a pairs file is written (or removed) outside of main
WriteTrainingData(path, f) ==
    /\ runs < MaxRuns
    /\ pairsFile[path] # f
    /\ pairsFile' = [pairsFile EXCEPT ![path] = f]
    /\ UNCHANGED <<file, loaded, cache, qvecsFile, trainResult, runs, response>>

NoArray == [exists |-> FALSE, rows |-> <<>>]

InitTrain ==
    /\ StoreInit
    /\ CheckIdle
    /\ CanonIdle
    /\ TopkIdle
    /\ PairIdle
    /\ PureIdle
    /\ pairsFile \in [TrainPaths -> {NoFile}]
    /\ qvecsFile = [p \in CachePaths |-> NoArray]
    /\ trainResult = NoneObj
    /\ runs = 0
    /\ response = NoneObj

NextTrain ==
    \/ \E pairs_path \in TrainPaths \cup {NoPath}, w \in Solutions :
         \E generated \in GeneratedFor(pairs_path) :
            TrainMain(pairs_path, generated, w) /\ UNCHANGED offTrain
    \/ \E data_path \in TrainPaths \cup {NoPath}, w \in Solutions :
         \E generated \in GeneratedFor(data_path) :
            PostTrain(data_path, generated, w) /\ UNCHANGED offTrain
    \/ \E path \in TrainPaths : \E f \in FilesAt(path) :
         WriteTrainingData(path, f) /\ UNCHANGED offTrain

SpecTrain == InitTrain /\ [][NextTrain]_vars

----------------------------------------------------------------------------
(* Trainer properties                                                      *)

\* the step is a call of main with a pairs_path that names no file
CalledWithMissingPath ==
    /\ runs' = runs + 1
    /\ trainResult'.pairs_path # NoPath
    /\ ~pairsFile[trainResult'.pairs_path].exists

\* C10: a call of train_ranker.main with a pairs_path that does not exist
\* returns success = false with a message that holds "Training data not
\* found" instead of raising, and changes nothing: no classifier artifact
\* and no embedding cache file is written, and it makes no embedding and no
\* retrieval call.
MissingPathReturnsError ==
    [][CalledWithMissingPath =>
          /\ ~trainResult'.result.raised
          /\ trainResult'.result.success = FALSE
          /\ trainResult'.result.message[1] = "Training data not found: "
          /\ trainResult'.result.message[2] = trainResult'.pairs_path
          /\ file' = file
          /\ cache' = cache
          /\ qvecsFile' = qvecsFile
          /\ pairsFile' = pairsFile
          /\ trainResult'.embeds = 0
          /\ trainResult'.fetches = 0]_vars

\* after a run that trained a model and wrote a cache file, a call with a
\* path that names no file has returned the error
MissingPathReturnsErrorWitness ==
    /\ trainResult # NoneObj
    /\ trainResult.pairs_path = PathOf("pairs", ".parquet")
    /\ ~pairsFile[trainResult.pairs_path].exists
    /\ pairsFile[PathOf("pairs", ".csv")].exists
    /\ ~trainResult.result.raised
    /\ ~trainResult.result.success
    /\ trainResult.result.message[1] = "Training data not found: "
    /\ file["model.bin"] \in Solutions
    /\ qvecsFile[PathOf("pairs", ".qvecs.npy")].exists

\* C11: POST /train surfaces the trainer's result: when the named training
\* file is missing the response has status 200 and its body carries
\* success = false and a message that holds "Training data not found".
TrainSurfacesResult ==
    (/\ response # NoneObj
     /\ ~response.result.raised
     /\ ~response.result.success)
    => /\ response.status_code = 200
       /\ "success" \in DOMAIN response.body
       /\ response.body.success = FALSE
       /\ "message" \in DOMAIN response.body
       /\ response.body.message[1] = "Training data not found: "

\* C12: the query vector main uses for pair i is the embedding of pair i's
\* CanonicalText: cached vectors are reused only when they were computed
\* from the same input, so a run over other content of as many rows, at the
\* same cache path, embeds again.
QueryVectorsMatchTexts ==
    trainResult # NoneObj =>
        \A i \in DOMAIN trainResult.qvecs :
            trainResult.qvecs[i] = embed_identity(trainResult.texts[i], EncoderDim)

----------------------------------------------------------------------------
(* The pure functions, each applied to arguments of a bounded set          *)

\* a call that has not returned yet
Applying(fn, args) == [fn |-> fn, args |-> args, returned |-> FALSE, value |-> NoneObj]

\* the call in hand returns value
Returns(value) == applied' = [applied EXCEPT !.returned = TRUE, !.value = value]

Pending(fn) == applied # NoneObj /\ applied.fn = fn /\ ~applied.returned

Applied(fn) == applied # NoneObj /\ applied.fn = fn /\ applied.returned

offPure == <<onlineVars, topkVars, pairVars, trainVars>>

\* feature rows: similarities and overlaps in hundredths, the indicators 0
\* or 1, the DOB delta in days to either side of the bonus steps
FeatureRows ==
    { <<vsim, name_sim, phone, email, govid, addr, city_sim, state_sim, pin, dob_delta>> :
        vsim \in {0, 50, 100}, name_sim \in {0, 50, 100}, phone \in {0, 100},
        email \in {0, 100}, govid \in {0, 100}, addr \in {0, 100},
        city_sim \in {0, 100}, state_sim \in {0, 100}, pin \in {0, 50, 100},
        dob_delta \in {0, 29, 30, 364, 365, 9999} }

\* RuleBasedClassifier().predict_proba([row])[0]
RulePredictProba ==
    /\ Pending("RuleBasedClassifier.predict_proba")
    /\ Returns(ModelProba(DefaultModel, <<applied.args.row>>)[1])

RuleCalls == {Applying("RuleBasedClassifier.predict_proba", [row |-> row]) : row \in FeatureRows}

\* C13: for every feature row whose gov-id match is 1.0 the rule-based
\* positive-class score is 0.99, whatever the nine other features are.
GovIdMatchScores99 ==
    (Applied("RuleBasedClassifier.predict_proba") /\ applied.args.row[5] = 100)
    => applied.value[2] = 9900

\* a row whose only signal is the gov-id match has scored 0.99
GovIdMatchScores99Witness ==
    /\ Applied("RuleBasedClassifier.predict_proba")
    /\ applied.args.row = <<0, 0, 0, 0, 100, 0, 0, 0, 0, 9999>>
    /\ applied.value[2] = 9900

\* C14: a feature row whose first nine features are 0 scores exactly 0.0 for
\* the positive class whatever its DOB delta, 0 as well as 9999: the DOB
\* bonus needs a phone match, an email match or a positive name similarity.
NoSignalScoresZero ==
    (Applied("RuleBasedClassifier.predict_proba")
     /\ \A k \in 1..9 : applied.args.row[k] = 0)
    => applied.value[2] = 0

\* the row of nine zeros and a DOB delta of 0 has scored 0.0
NoSignalScoresZeroWitness ==
    /\ Applied("RuleBasedClassifier.predict_proba")
    /\ applied.args.row = <<0, 0, 0, 0, 0, 0, 0, 0, 0, 0>>
    /\ applied.value[2] = 0

\* C15: for every feature row whose features 1-9 lie in [0, 1] and whose
\* DOB delta is >= 0, the rule-based positive-class score lies in [0, 0.99]
\* and the negative-class probability is 1 minus that score.
RuleScoreInRange ==
    (Applied("RuleBasedClassifier.predict_proba")
     /\ \A k \in 1..9 : applied.args.row[k] \in 0..100
     /\ applied.args.row[10] >= 0)
    => /\ applied.value[2] \in 0..9900
       /\ applied.value[1] = 10000 - applied.value[2]

\* a row without gov-id match whose weighted sum and bonus pass 0.99 has
\* scored 0.99
RuleScoreInRangeWitness ==
    /\ Applied("RuleBasedClassifier.predict_proba")
    /\ applied.args.row = <<100, 100, 100, 100, 0, 100, 100, 100, 100, 0>>
    /\ applied.value = <<100, 9900>>

\* an identity with every field, and one that shares no field with it
FullIdentity ==
    [full_name |-> NameAl, dob |-> isoformat([y |-> 1990, m |-> 1, d |-> 3]),
     phone_e164 |-> <<"1","2">>, email_norm |-> <<"a","@","x">>,
     gov_id_norm |-> <<"I","D","1">>, addr_line |-> <<"1"," ","R","d">>,
     city |-> <<"P","u">>, state |-> <<"M","H">>, postal_code |-> Pin]

OtherIdentity ==
    [full_name |-> <<"Z","o">>, dob |-> isoformat([y |-> 1985, m |-> 6, d |-> 1]),
     phone_e164 |-> <<"9","9">>, email_norm |-> <<"z","@","y">>,
     gov_id_norm |-> <<"X","9">>, addr_line |-> <<"7"," ","S","t">>,
     city |-> <<"G","o">>, state |-> <<"G","A">>,
     postal_code |-> <<"4","0","0","0","0","1">>]

\* the dict r without the key k
Without(r, k) == [j \in DOMAIN r \ {k} |-> r[j]]

\* the identities of a pair: the two above, the full one with one key
\* absent or None, and the other one agreeing with the full one in one field
FeatureIdentities ==
    {FullIdentity, OtherIdentity}
    \cup {Without(FullIdentity, k) : k \in DOMAIN FullIdentity}
    \cup {[FullIdentity EXCEPT ![k] = None] : k \in DOMAIN FullIdentity}
    \cup {[OtherIdentity EXCEPT ![k] = FullIdentity[k]] : k \in DOMAIN FullIdentity}

FeatureCalls ==
    {Applying("feature_row", [query |-> q, candidate |-> c, vdist |-> vdist]) :
        q \in FeatureIdentities, c \in FeatureIdentities, vdist \in {0, 25}}

\* feature_row(query, candidate, vdist)
FeatureRow ==
    /\ Pending("feature_row")
    /\ Returns(feature_row(applied.args.query, applied.args.candidate, applied.args.vdist))

\* the field the documented order has at each position after the first
FieldAt ==
    <<"vdist", "full_name", "phone_e164", "email_norm", "gov_id_norm", "addr_line",
      "city", "state", "postal_code", "dob">>

\* both dicts hold a value for the field
BothHave(q, c, k) ==
    k \in DOMAIN q /\ k \in DOMAIN c /\ Truthy(q[k]) /\ Truthy(c[k])

\* C16: feature_row returns exactly 10 values in the order vector
\* similarity, name similarity, phone match, email match, gov-id match,
\* address overlap, city similarity, state similarity, postal-code tier, DOB
\* delta, for every pair, also one with missing fields, and this is the
\* order in which RuleBasedClassifier unpacks a row.  (The fields of a pair
\* of the model agree wholly or not at all.)
FeatureRowOrder ==
    Applied("feature_row") =>
        /\ Len(applied.value) = 10
        /\ applied.value[1] = 10000 \div (100 + applied.args.vdist)
        /\ \A p \in 2..9 :
              applied.value[p] =
                 IF /\ BothHave(applied.args.query, applied.args.candidate, FieldAt[p])
                    /\ applied.args.query[FieldAt[p]] = applied.args.candidate[FieldAt[p]]
                 THEN 100 ELSE 0
        /\ applied.value[10] = 9999
              <=> ~BothHave(applied.args.query, applied.args.candidate, "dob")
        /\ applied.value[10] = 0
              <=> /\ BothHave(applied.args.query, applied.args.candidate, "dob")
                  /\ applied.args.query.dob = applied.args.candidate.dob
        /\ applied.value[5] = 100
              => ModelProba(DefaultModel, <<applied.value>>)[1][2] = 9900
        /\ applied.value[3] = 100
              => ModelProba(DefaultModel, <<applied.value>>)[1][2] >= 4000

\* the row of a query without phone against a candidate that shares the
\* gov id alone
FeatureRowOrderWitness ==
    /\ Applied("feature_row")
    /\ applied.args.query = Without(FullIdentity, "phone_e164")
    /\ applied.args.candidate = [OtherIdentity EXCEPT !.gov_id_norm = FullIdentity.gov_id_norm]
    /\ applied.args.vdist = 25
    /\ applied.value = <<80, 0, 0, 0, 100, 0, 0, 0, 0, 1677>>

\* values of a phone, email or gov-id field: missing, empty, two that
\* differ, and a blank
MatchValues == {None, <<>>, <<"1","2">>, <<"9","9">>, <<" ">>}

MatchCalls ==
    {Applying(fn, [a |-> a, b |-> b]) :
        fn \in {"phone_match", "email_match", "govid_match"},
        a \in MatchValues, b \in MatchValues}

\* phone_match(a, b)
PhoneMatch ==
    /\ Pending("phone_match")
    /\ Returns(phone_match(applied.args.a, applied.args.b))

\* email_match(a, b)
EmailMatch ==
    /\ Pending("email_match")
    /\ Returns(email_match(applied.args.a, applied.args.b))

\* govid_match(a, b)
GovidMatch ==
    /\ Pending("govid_match")
    /\ Returns(govid_match(applied.args.a, applied.args.b))

\* a value that is neither None nor the empty string
Present(v) == v # None /\ Len(v) > 0

\* C17: the phone, email and gov-id match features are 1.0 exactly when
\* both values are non-empty and equal, and 0.0 otherwise; a value missing
\* on both sides is never a match.
ExactMatchIndicator ==
    \A fn \in {"phone_match", "email_match", "govid_match"} :
        Applied(fn) =>
            /\ applied.value \in {0, 100}
            /\ applied.value = 100
                  <=> /\ Present(applied.args.a)
                      /\ Present(applied.args.b)
                      /\ applied.args.a = applied.args.b
            /\ (~Present(applied.args.a) /\ ~Present(applied.args.b))
                  => applied.value = 0

\* a gov id missing on both sides has been compared
ExactMatchIndicatorWitness ==
    /\ Applied("govid_match")
    /\ applied.args.a = None
    /\ applied.args.b = None
    /\ applied.value = 0

\* normalized postal codes: missing, empty, and valid codes that agree in
\* all six, in the first five, or in fewer characters
PinValues ==
    {None, <<>>, <<"5","6","0","0","0","1">>, <<"5","6","0","0","0","2">>,
     <<"5","6","0","1","0","1">>, <<"4","0","0","0","0","1">>}

PinCalls == {Applying("pincode_match", [a |-> a, b |-> b]) : a \in PinValues, b \in PinValues}

\* pincode_match(a, b)
PincodeMatch ==
    /\ Pending("pincode_match")
    /\ Returns(pincode_match(applied.args.a, applied.args.b))

\* both have 6 characters and the same first 5
SameFirstFive(a, b) == Len(a) = 6 /\ Len(b) = 6 /\ SubSeq(a, 1, 5) = SubSeq(b, 1, 5)

\* C18 as stated: for every pair of normalized postal-code values a and b,
\* pincode_match(a, b) is 1.0 if a equals b, 0.5 if they differ but both
\* have 6 characters and the same first 5 characters, and 0.0 otherwise.
PincodeTiers ==
    (Applied("pincode_match") /\ applied.args.a # None /\ applied.args.b # None) =>
        applied.value =
            IF applied.args.a = applied.args.b THEN 100
            ELSE IF SameFirstFive(applied.args.a, applied.args.b) THEN 50
            ELSE 0

\* C18 as amended: pincode_match(a, b) is 0.0 if either value is empty or
\* missing; otherwise it is 1.0 if a equals b, 0.5 if they differ but both
\* have 6 characters and the same first 5 characters, and 0.0 otherwise.
PincodeTiersOfPresent ==
    Applied("pincode_match") =>
        applied.value =
            IF ~Present(applied.args.a) \/ ~Present(applied.args.b) THEN 0
            ELSE IF applied.args.a = applied.args.b THEN 100
            ELSE IF SameFirstFive(applied.args.a, applied.args.b) THEN 50
            ELSE 0

\* two empty postal codes have been compared
PincodeTiersOfPresentWitness ==
    /\ Applied("pincode_match")
    /\ applied.args.a = <<>>
    /\ applied.args.b = <<>>
    /\ applied.value = 0

\* dates of birth: missing, empty, two days apart, 9999 days apart, and
\* years apart
DobValues ==
    {None, <<>>,
     isoformat([y |-> 1990, m |-> 1, d |-> 3]), isoformat([y |-> 1990, m |-> 1, d |-> 1]),
     isoformat([y |-> 2017, m |-> 5, d |-> 18]), isoformat([y |-> 1985, m |-> 6, d |-> 1])}

DobCalls == {Applying("dob_delta_days", [a |-> a, b |-> b]) : a \in DobValues, b \in DobValues}

\* dob_delta_days(a, b)
DobDeltaDays ==
    /\ Pending("dob_delta_days")
    /\ Returns(dob_delta_days(applied.args.a, applied.args.b))

\* the number of days from the earlier of two dates to the later
DaysBetween(a, b) ==
    LET x == toordinal(fromisoformat(a))
        y == toordinal(fromisoformat(b))
    IN IF x <= y THEN y - x ELSE x - y

\* C19 as stated: dob_delta_days(a, b) returns the sentinel 9999 if and
\* only if at least one date is missing, and otherwise the non-negative
\* absolute number of days between the two dates, symmetric in its
\* arguments and 0 for equal dates.
DobSentinelIffMissing ==
    Applied("dob_delta_days") =>
        /\ applied.value = 9999
              <=> (~Present(applied.args.a) \/ ~Present(applied.args.b))
        /\ (Present(applied.args.a) /\ Present(applied.args.b)) =>
              /\ applied.value = DaysBetween(applied.args.a, applied.args.b)
              /\ applied.value >= 0
              /\ applied.value = dob_delta_days(applied.args.b, applied.args.a)
              /\ applied.args.a = applied.args.b => applied.value = 0

\* C19 as amended: dob_delta_days(a, b) returns 9999 if at least one date
\* is missing, and otherwise the non-negative absolute number of days
\* between the two dates (which is 9999 for dates 9999 days apart),
\* symmetric in its arguments and 0 for equal dates.
DobDeltaAbsolute ==
    Applied("dob_delta_days") =>
        /\ (~Present(applied.args.a) \/ ~Present(applied.args.b)) => applied.value = 9999
        /\ (Present(applied.args.a) /\ Present(applied.args.b)) =>
              /\ applied.value = DaysBetween(applied.args.a, applied.args.b)
              /\ applied.value >= 0
              /\ applied.value = dob_delta_days(applied.args.b, applied.args.a)
              /\ applied.args.a = applied.args.b => applied.value = 0

\* an earlier date has been compared with one two days later
DobDeltaAbsoluteWitness ==
    /\ Applied("dob_delta_days")
    /\ applied.args.a = isoformat([y |-> 1990, m |-> 1, d |-> 1])
    /\ applied.args.b = isoformat([y |-> 1990, m |-> 1, d |-> 3])
    /\ applied.value = 2

\* raw postal codes: missing, empty, blank, a valid code written plainly,
\* with spaces and with tabs, and invalid ones
RawPins ==
    {None, <<>>, <<" "," ">>,
     <<"5","6","0","0","0","1">>, <<"5","6","0"," ","0","0","1">>,
     <<" ","5","6","0","0","0","1"," ">>, <<"\t","5","6","0","0","0","1">>,
     <<"5","6","0","\t","0","0","1">>,
     <<"0","5","6","0","0","0">>, <<"5","6","0","0","0","A">>,
     <<"5","6","0","0","0","1","1">>}

PostalCalls == {Applying("norm_postal_code", [s |-> s]) : s \in RawPins}

\* norm_postal_code(s)
NormPostalCode ==
    /\ Pending("norm_postal_code")
    /\ Returns(norm_postal_code(applied.args.s))

\* canonical_identity_text('Al', None, ..., None, postal_code, 'IN')
TextOfPostalCode(postal_code) ==
    canonical_identity_text(NameAl, None, None, None, None, None, None, None,
                            postal_code, <<"I","N">>)

TextCalls == {Applying("canonical_identity_text", [s |-> s]) : s \in RawPins}

CanonicalIdentityText ==
    /\ Pending("canonical_identity_text")
    /\ Returns(TextOfPostalCode(applied.args.s))

\* the string without its whitespace characters
NoWhitespace(s) == SelectSeq(OrEmpty(s), LAMBDA c : ~IsSpace(c))

\* C20: norm_postal_code returns either the empty string or a 6-digit
\* string with a non-zero first digit: the input with whitespace removed
\* when that matches ^[1-9]\d{5}$ and the empty string otherwise; and
\* canonical_identity_text embeds this value, so raw postal codes that
\* differ only in whitespace give the same CanonicalText.
PostalCodeWhitespaceRemoved ==
    /\ Applied("norm_postal_code") =>
          /\ applied.value = <<>> \/ PinMatches(applied.value)
          /\ applied.value =
                IF PinMatches(NoWhitespace(applied.args.s))
                THEN NoWhitespace(applied.args.s) ELSE <<>>
    /\ Applied("canonical_identity_text") =>
          applied.value = TextOfPostalCode(NoWhitespace(applied.args.s))

\* addresses that differ from fb@gmail.com only in dots, case and +suffix
\* (and surrounding blanks)
GmailVariants ==
    {     <<"f","b","@","g","m","a","i","l",".","c","o","m">>,
     <<"F",".","B","@","g","m","a","i","l",".","c","o","m">>,
     <<"f",".","b","+","s","@","g","m","a","i","l",".","c","o","m">>,
     <<" ","F","B","+","x","+","y","@","G","m","a","i","l",".","C","o","m"," ">>,
     <<"f",".","b",".","+",".","@","G","M","A","I","L",".","C","O","M">>}

\* other raw addresses: missing, empty, blank, of another provider, without
\* a domain, of googlemail.com, with two @, and Gmail ones whose local part
\* begins with a dot or a plus
OtherEmails ==
    {     None, <<>>, <<" "," ">>, <<"U","+","s",".","x","@","E",".","c","o","m">>,
     <<"a",".","b">>,
     <<"f",".","b","+","s","@","g","o","o","g","l","e","m","a","i","l",".","c","o","m">>,
     <<"a","@","b","@","g","m","a","i","l",".","c","o","m">>,
     <<"a",".","b","@","g","m","a","i","l",".","c","o">>,
     <<"."," ","a","@","g","m","a","i","l",".","c","o","m">>,
     <<"+","x","@","g","m","a","i","l",".","c","o","m">>}

EmailCalls ==
    {Applying("norm_email", [s |-> s]) : s \in GmailVariants \cup OtherEmails}

\* norm_email(s)
NormEmail ==
    /\ Pending("norm_email")
    /\ Returns(norm_email(applied.args.s))

\* the part of an address before its first @, and the part after it
LocalPart(t) == IF Find(t, "@", 1) = 0 THEN t ELSE SubSeq(t, 1, Find(t, "@", 1) - 1)

DomainPart(t) == IF Find(t, "@", 1) = 0 THEN <<>> ELSE SubSeq(t, Find(t, "@", 1) + 1, Len(t))

\* the characters of set that occur in s
Occurring(s, set) == {s[i] : i \in DOMAIN s} \cap set

CandidateCalls ==
    {Applying("candidate_dict", [row |-> <<k>> \o StoredRows[k]]) : k \in DOMAIN StoredRows}

\* candidate_dict(row)
CandidateDict ==
    /\ Pending("candidate_dict")
    /\ Returns(candidate_dict(applied.args.row))

\* the column of a topk_by_vector row that the SELECT list names k, a DATE
\* as its ISO string
Column(row, k) ==
    CASE k = "full_name"   -> row[3]
      [] k = "dob"         -> IF row[4] # NoneObj THEN isoformat(row[4]) ELSE None
      [] k = "phone_e164"  -> row[5]
      [] k = "email_norm"  -> row[6]
      [] k = "gov_id_norm" -> row[7]
      [] k = "addr_line"   -> row[8]
      [] k = "city"        -> row[9]
      [] k = "state"       -> row[10]
      [] k = "postal_code" -> row[11]

\* C28: for every row returned by topk_by_vector, each candidate field that
\* feature_row reads (full_name, dob, phone_e164, email_norm, gov_id_norm,
\* addr_line, city, state, postal_code) equals the same-named column of
\* that row.
CandidateFieldsAreColumns ==
    Applied("candidate_dict") =>
        \A p \in 2..10 :
            Get(applied.value, FieldAt[p]) = Column(applied.args.row, FieldAt[p])

\* the field normalizers by name
Normalize(fn, s) ==
    CASE fn = "norm_name"        -> norm_name(s)
      [] fn = "norm_email"       -> norm_email(s)
      [] fn = "norm_phone_e164"  -> norm_phone_e164(s)
      [] fn = "norm_govid"       -> norm_govid(s)
      [] fn = "norm_postal_code" -> norm_postal_code(s)

\* raw values of the field each normalizer is for
RawValues(fn) ==
    CASE fn = "norm_name"        -> RawNames \cup {None, <<>>, <<" ","A"," "," ","b","-","C"," ">>}
      [] fn = "norm_email"       -> GmailVariants \cup OtherEmails
      [] fn = "norm_phone_e164"  -> RawPhones \cup {<<>>, <<"0","1","2","3","4","5","6","7","8","9">>, <<"1","2">>}
      [] fn = "norm_govid"       -> {None, <<>>, <<" ","a","b","1"," ">>, <<"A","B","1">>}
      [] fn = "norm_postal_code" -> RawPins

Normalizers == {"norm_name", "norm_email", "norm_phone_e164", "norm_govid", "norm_postal_code"}

TwiceCalls ==
    UNION {{Applying("normalize twice", [fn |-> fn, s |-> s]) : s \in RawValues(fn)} :
              fn \in Normalizers}

\* fn(s) and fn(fn(s)) for a field normalizer fn
NormalizeTwice ==
    /\ Pending("normalize twice")
    /\ Returns([once  |-> Normalize(applied.args.fn, applied.args.s),
                twice |-> Normalize(applied.args.fn,
                                    Normalize(applied.args.fn, applied.args.s))])

\* the fields of a customer as a caller supplies them
RawCustomers ==
    {[full_name |-> n, dob |-> None, phone |-> ph, email |-> e, gov_id |-> <<"i","d"," ","1">>,
      addr_line |-> None, city |-> None, state |-> None, postal_code |-> pc,
      country |-> <<"I","N">>] :
        n \in RawNames, ph \in RawPhones,
        e \in {None, <<"F",".","B","+","s","@","g","m","a","i","l",".","c","o","m">>, <<"."," ","a","@","g","m","a","i","l",".","c","o","m">>},
        pc \in {None, <<"5","6","0"," ","0","0","1">>, <<"0","5","6","0","0","0">>}}

StoredCalls == {Applying("text of stored values", q) : q \in RawCustomers}

\* canonical_identity_text of the raw values, and of the values
\* create_customer has normalized for the customers row
TextOfStoredValues ==
    /\ Pending("text of stored values")
    /\ Returns([raw |-> canonical_identity_text(
                            applied.args.full_name, applied.args.dob, applied.args.phone,
                            applied.args.email, applied.args.gov_id, applied.args.addr_line,
                            applied.args.city, applied.args.state,
                            applied.args.postal_code, applied.args.country),
                stored |-> create_customer(applied.args).identity_text])

\* C30: each field normalizer (norm_name, norm_email, norm_phone_e164,
\* norm_govid, norm_postal_code) is idempotent: applying it to its own
\* output returns that output unchanged, so canonical_identity_text gives
\* the same text whether it receives raw values or values already normalized
\* by to_query_obj, create_customer or a stored row.
NormalizersIdempotent ==
    /\ Applied("normalize twice") => applied.value.twice = applied.value.once
    /\ Applied("text of stored values") => applied.value.stored = applied.value.raw

PureCalls ==
    RuleCalls \cup FeatureCalls \cup MatchCalls \cup PinCalls \cup DobCalls
        \cup PostalCalls \cup TextCalls \cup EmailCalls
        \cup CandidateCalls \cup TwiceCalls \cup StoredCalls

InitPure ==
    /\ StoreInit
    /\ CheckIdle
    /\ CanonIdle
    /\ TopkIdle
    /\ PairIdle
    /\ TrainIdle
    /\ applied \in PureCalls

NextPure ==
    \/ RulePredictProba /\ UNCHANGED offPure
    \/ FeatureRow /\ UNCHANGED offPure
    \/ PhoneMatch /\ UNCHANGED offPure
    \/ EmailMatch /\ UNCHANGED offPure
    \/ GovidMatch /\ UNCHANGED offPure
    \/ PincodeMatch /\ UNCHANGED offPure
    \/ DobDeltaDays /\ UNCHANGED offPure
    \/ NormPostalCode /\ UNCHANGED offPure
    \/ CanonicalIdentityText /\ UNCHANGED offPure
    \/ NormEmail /\ UNCHANGED offPure
    \/ CandidateDict /\ UNCHANGED offPure
    \/ NormalizeTwice /\ UNCHANGED offPure
    \/ TextOfStoredValues /\ UNCHANGED offPure

SpecPure == InitPure /\ [][NextPure]_vars

============================================================================
